---- MODULE Spec2Model ----
(***************************************************************************)
(* NDPeekr: the windowed aggregation store (NDPStats) that the listener    *)
(* feeds and the display reads.                                            *)
(*                                                                         *)
(* Time is a natural number; time.Now() is the variable clock.  The zero   *)
(* value of time.Time (a field never assigned) is ZeroTime, earlier than   *)
(* every clock reading and every cutoff.                                   *)
(*                                                                         *)
(* Spec      the store called by one caller at a time: every action is a   *)
(*           whole method call.                                            *)
(* SpecConc  the store called by concurrent goroutines: a call is split at *)
(*           the scheduling points around and inside its critical section. *)
(* SpecConcFair  SpecConc with a fair scheduler and a fair lock.            *)
(* SpecParse a decoder of the listener applied to one packet, a sequence   *)
(*           of bytes.                                                     *)
(* SpecListener  the listener loop reading packets and feeding the store   *)
(*           and the router table, next to Prune and GetRouters.           *)
(* SpecMembership  the listener loop reading MLD packets, next to Prune and *)
(*           GetStats.                                                     *)
(* SpecPipeline  the same loop split at its store calls, which the timer's *)
(*           Prune can come between.                                       *)
(***************************************************************************)
EXTENDS Integers, Sequences, FiniteSets, TLC

\* ------------------------------------------------------------------ bounds
MaxTime == 2
MaxWindow == 1
MaxEvents == 2
MaxCalls == 2
MaxRecords == 2
MaxOptions == 2

\* ---------------------------------------------------------------- universe
ZeroTime == 0

\* the clock reading at which NewNDPStats is called: far enough from the zero
\* time for every cutoff now - window to lie after it, as on a real clock
StartTime == MaxWindow + 1

EndTime == StartTime + MaxTime - 1

Addrs == {"fe80::1", "fe80::2"}

Kinds == {"router_solicitation", "neighbor_solicitation"}

\* the multicast groups of the model, listed in the order of Go's string <
GroupOrder == <<"ff02::1:3", "ff02::fb">>

GroupAddrs == {GroupOrder[i] : i \in 1..Len(GroupOrder)}

NoMAC == ""

MACs == {"aa:bb:cc:dd:ee:01", "aa:bb:cc:dd:ee:02"}

Procs == {"g1", "g2"}

NoProc == "none"

VARIABLES
  clock,      \* time.Now()
  window,     \* NDPStats.window
  peers,      \* NDPStats.peers: address -> PeerStats
  snap,       \* the value GetStats returned, while no write has followed it (Spec)
  lastAt,     \* history: the clock reading at which the last store method ran (Spec)
  removed,    \* history: the PeerStats the last write deleted, if it was a Prune (Spec)
  lastOp,     \* history: the last store method that completed (Spec)
  reads,      \* history: GetStats calls completed since the last write, at most 2 (Spec)
  events,     \* history: the number of Record* calls started so far
  prev,       \* history: peers as it was before the last write (Spec)
  firstEver,  \* history: per address, the time of the first Record* call for it, if any (Spec)
  mu,         \* NDPStats.mu: [writer: the holder of Lock, readers: the holders of RLock]
  pc,         \* SpecConc: where each goroutine stands in its call; SpecPipeline:
              \* the store call the listener makes next
  call,       \* SpecConc: the method each goroutine is running, with its arguments
  local,      \* SpecConc: the locals of that call (now, cutoff, the range loops);
              \* SpecPipeline: the groups the listener has still to record
  committed,  \* history (SpecConc): peers as the last completed write left it
  calls,      \* history (SpecConc): the number of calls started so far
  routers,    \* the router table: address -> RouterInfo
  rsnap,      \* the value GetRouters returned, while no write has followed it
  buf,        \* the bytes of the last packet the listener read, buf[:n]
  src,        \* the source address of that packet, srcIP
  out         \* SpecParse: the decoder that was applied to buf, and what it returned

storeVars == <<clock, window, peers>>
seqVars == <<snap, lastAt, removed, lastOp, reads, prev, firstEver>>
concVars == <<mu, pc, call, local, committed, calls>>
listenerVars == <<routers, rsnap, buf, src, out>>
vars == <<clock, window, peers, snap, lastAt, removed, lastOp, reads, events, prev, firstEver, mu, pc, call, local, committed, calls, routers, rsnap, buf, src, out>>

\* ------------------------------------------------------------ map helpers
EmptyMap == [x \in {} |-> 0]

MapPut(m, k, v) == [x \in (DOMAIN m) \cup {k} |-> IF x = k THEN v ELSE m[x]]

MapDelete(m, k) == [x \in (DOMAIN m) \ {k} |-> m[x]]

\* the orders in which a range loop can visit the keys S of a map
RangeOrders(S) == {o \in [1..Cardinality(S) -> S] : \A i, j \in DOMAIN o : i # j => o[i] # o[j]}

RECURSIVE SumOver(_, _)
SumOver(f, S) == IF S = {} THEN 0 ELSE LET x == CHOOSE y \in S : TRUE IN f[x] + SumOver(f, S \ {x})

\* --------------------------------------------------------------- the store
\* (an After that also holds of equal instants)
AfterInclusive(t, u) == t >= u

\* time.Time.After
After(t, u) == t > u

\* (a cutoff that leaves the window out)
CutoffNoWindow(now, w) == now

\* cutoff := time.Now().Add(-s.window)
Cutoff(now, w) == now - w

NewPeer(now) == [FirstSeen |-> now, LastSeen |-> ZeroTime, Messages |-> EmptyMap, Groups |-> EmptyMap, MAC |-> NoMAC]

\* (a lookup that starts a new PeerStats also for an address that has one)
getOrCreatePeerAlwaysNew(ps, ip, now) == MapPut(ps, ip, NewPeer(now))

getOrCreatePeer(ps, ip, now) == IF ip \in DOMAIN ps THEN ps ELSE MapPut(ps, ip, NewPeer(now))

SetLastSeen(ps, ip, now) == [ps EXCEPT ![ip].LastSeen = now]

AppendMessage(ps, ip, ndpKind, now) ==
  LET old == IF ndpKind \in DOMAIN ps[ip].Messages THEN ps[ip].Messages[ndpKind] ELSE <<>>
  IN [ps EXCEPT ![ip].Messages = MapPut(@, ndpKind, Append(old, now))]

SetGroup(ps, ip, group, now) == [ps EXCEPT ![ip].Groups = MapPut(@, group, now)]

\* (a RecordMAC that keeps the MAC the peer already has)
SetMACKeepingFirst(ps, ip, mac) == IF ps[ip].MAC = NoMAC THEN [ps EXCEPT ![ip].MAC = mac] ELSE ps

SetMAC(ps, ip, mac) == [ps EXCEPT ![ip].MAC = mac]

RecordMessageBody(ps, ip, ndpKind, now) ==
  AppendMessage(SetLastSeen(getOrCreatePeer(ps, ip, now), ip, now), ip, ndpKind, now)

\* (a RecordMLDMembership that takes the report for an event of the peer)
RecordMLDMembershipBodyAsEvent(ps, ip, group, now) ==
  SetGroup(SetLastSeen(getOrCreatePeer(ps, ip, now), ip, now), ip, group, now)

RecordMLDMembershipBody(ps, ip, group, now) == SetGroup(getOrCreatePeer(ps, ip, now), ip, group, now)

RecordMACBody(ps, ip, mac, now) == SetMAC(getOrCreatePeer(ps, ip, now), ip, mac)

\* ----------------------------------------------------------------- GetStats
RECURSIVE CountAfter(_, _)
CountAfter(timestamps, cutoff) ==
  IF timestamps = <<>> THEN 0
  ELSE (IF After(Head(timestamps), cutoff) THEN 1 ELSE 0) + CountAfter(Tail(timestamps), cutoff)

CountsOf(peer, cutoff) == [kind \in DOMAIN peer.Messages |-> CountAfter(peer.Messages[kind], cutoff)]

TotalOf(counts) == SumOver(counts, DOMAIN counts)

StrLess(a, b) ==
  LET ia == CHOOSE i \in 1..Len(GroupOrder) : GroupOrder[i] = a
      ib == CHOOSE i \in 1..Len(GroupOrder) : GroupOrder[i] = b
  IN ia < ib

\* (a sort with the comparison turned round)
RECURSIVE SortStringsDescending(_)
SortStringsDescending(S) ==
  IF S = {} THEN <<>>
  ELSE LET m == CHOOSE x \in S : \A y \in S : ~StrLess(x, y)
       IN <<m>> \o SortStringsDescending(S \ {m})

\* sort.Strings over the collected group addresses
RECURSIVE SortStrings(_)
SortStrings(S) ==
  IF S = {} THEN <<>>
  ELSE LET m == CHOOSE x \in S : \A y \in S : ~StrLess(y, x)
       IN <<m>> \o SortStrings(S \ {m})

GroupsOf(peer, cutoff) == SortStrings({g \in DOMAIN peer.Groups : After(peer.Groups[g], cutoff)})

Summarize(addr, peer, cutoff) ==
  LET counts == CountsOf(peer, cutoff)
  IN [Address |-> addr, FirstSeen |-> peer.FirstSeen, LastSeen |-> peer.LastSeen,
      Counts |-> counts, Total |-> TotalOf(counts), Groups |-> GroupsOf(peer, cutoff),
      MAC |-> peer.MAC]

\* (a range loop that appends no summary for a peer whose total is 0)
SummariesSkippingSilent(ps, order, cutoff) ==
  LET all == [i \in 1..Len(order) |-> Summarize(order[i], ps[order[i]], cutoff)]
  IN SelectSeq(all, LAMBDA s : s.Total # 0)

\* the summaries appended while ranging over the peers in the order `order`
Summaries(ps, order, cutoff) == [i \in 1..Len(order) |-> Summarize(order[i], ps[order[i]], cutoff)]

\* (a less function with the comparison turned round)
LessAscending(a, b) == a.Total < b.Total

\* the less function handed to sort.Slice
Less(a, b) == a.Total > b.Total

\* (a GetStats that returns the summaries as the range loop left them)
SortSliceNoSort(s) == {[i \in 1..Len(s) |-> s[p[i]]] : p \in Permutations(1..Len(s))}

\* sort.Slice is not stable: every arrangement of s that less leaves in order
\* is an outcome
SortSlice(s) ==
  {t \in {[i \in 1..Len(s) |-> s[p[i]]] : p \in Permutations(1..Len(s))} :
     \A i, j \in 1..Len(t) : i < j => ~Less(t[j], t[i])}

\* every value GetStats can return for the store ps at the clock reading now
GetStatsResults(ps, now, w) ==
  UNION {SortSlice(Summaries(ps, order, Cutoff(now, w))) : order \in RangeOrders(DOMAIN ps)}

\* -------------------------------------------------------------------- Prune
\* (a Prune that keeps the timestamps at the cutoff)
KeptFromCutoff(timestamps, cutoff) == SelectSeq(timestamps, LAMBDA ts : AfterInclusive(ts, cutoff))

Kept(timestamps, cutoff) == SelectSeq(timestamps, LAMBDA ts : After(ts, cutoff))

\* (a Prune that leaves the key of a kind whose timestamps are all dropped)
PruneMessagesKeepingKinds(msgs, cutoff) == [kind \in DOMAIN msgs |-> Kept(msgs[kind], cutoff)]

PruneMessages(msgs, cutoff) ==
  [kind \in {k \in DOMAIN msgs : Len(Kept(msgs[k], cutoff)) > 0} |-> Kept(msgs[kind], cutoff)]

totalKept(msgs, cutoff) == SumOver([kind \in DOMAIN msgs |-> Len(Kept(msgs[kind], cutoff))], DOMAIN msgs)

PruneGroups(groups, cutoff) == [g \in {x \in DOMAIN groups : After(groups[x], cutoff)} |-> groups[g]]

\* (a Prune that deletes no peer)
RemovePeerNever(peer, cutoff) == FALSE

\* (a Prune that keeps a peer while one of its groups is inside the window)
RemovePeerKeepingGroups(peer, cutoff) == totalKept(peer.Messages, cutoff) = 0 /\ DOMAIN PruneGroups(peer.Groups, cutoff) = {}

\* if totalKept == 0 { delete(s.peers, addr) }
RemovePeer(peer, cutoff) == totalKept(peer.Messages, cutoff) = 0

\* (a Prune that also drops the routers last seen at or before the cutoff)
PruneRoutersByLastSeen(rs, cutoff) == [a \in {x \in DOMAIN rs : After(rs[x].LastSeen, cutoff)} |-> rs[a]]

\* what Prune does to the router table: no statement of it touches any field of
\* the store but peers
PruneRouters(rs, cutoff) == rs

\* (a prune that moves a first seen time that is outside the window up to the
\* last seen time of the peer)
PrunePeerMovingFirstSeen(peer, cutoff) ==
  [peer EXCEPT !.Messages = PruneMessages(@, cutoff), !.Groups = PruneGroups(@, cutoff),
               !.FirstSeen = IF After(@, cutoff) THEN @ ELSE peer.LastSeen]

PrunePeer(peer, cutoff) ==
  [peer EXCEPT !.Messages = PruneMessages(@, cutoff), !.Groups = PruneGroups(@, cutoff)]

PruneBody(ps, now, w) ==
  LET cutoff == Cutoff(now, w)
  IN [a \in {x \in DOMAIN ps : ~RemovePeer(ps[x], cutoff)} |-> PrunePeer(ps[a], cutoff)]

\* ------------------------------------------------ Spec: one call at a time
NoCall == [op |-> "none"]

NoLocal == [now |-> 0]

NoSrc == ""

NoResult == [fn |-> "none"]

ListenerInit ==
  /\ routers = EmptyMap
  /\ rsnap = <<>>
  /\ buf = <<>>
  /\ src = NoSrc
  /\ out = NoResult

ConcInit ==
  /\ mu = [writer |-> NoProc, readers |-> {}]
  /\ pc = [p \in Procs |-> "idle"]
  /\ call = [p \in Procs |-> NoCall]
  /\ local = [p \in Procs |-> NoLocal]
  /\ committed = EmptyMap
  /\ calls = 0

\* NewNDPStats(window)
Init ==
  /\ clock = StartTime
  /\ window \in 0..MaxWindow
  /\ peers = EmptyMap
  /\ snap = <<>>
  /\ lastAt = StartTime
  /\ removed = EmptyMap
  /\ lastOp = "NewNDPStats"
  /\ reads = 0
  /\ events = 0
  /\ prev = EmptyMap
  /\ firstEver = [a \in Addrs |-> ZeroTime]
  /\ ConcInit
  /\ ListenerInit

\* time passes
Tick ==
  /\ clock < EndTime
  /\ clock' = clock + 1
  /\ UNCHANGED <<window, peers, snap, lastAt, removed, lastOp, reads, events, prev, firstEver>>
  /\ UNCHANGED concVars
  /\ UNCHANGED listenerVars

\* the first Record* call for an address is remembered, later ones change nothing
Seen(ip) == firstEver' = IF firstEver[ip] = ZeroTime THEN [firstEver EXCEPT ![ip] = clock] ELSE firstEver

\* a write by `op`: the value an earlier GetStats returned is stale from here on
Written(op) ==
  /\ lastOp' = op
  /\ reads' = 0
  /\ snap' = <<>>
  /\ lastAt' = clock
  /\ removed' = IF op = "Prune" THEN [a \in (DOMAIN peers) \ (DOMAIN peers') |-> peers[a]] ELSE EmptyMap
  /\ prev' = peers
  /\ rsnap' = <<>>
  /\ UNCHANGED <<clock, window>>
  /\ UNCHANGED concVars

RecordMessage(ip, ndpKind) ==
  /\ events < MaxEvents
  /\ events' = events + 1
  /\ peers' = RecordMessageBody(peers, ip, ndpKind, clock)
  /\ Seen(ip)
  /\ UNCHANGED <<routers, buf, src, out>>
  /\ Written("RecordMessage")

RecordMLDMembership(ip, group) ==
  /\ events < MaxEvents
  /\ events' = events + 1
  /\ peers' = RecordMLDMembershipBody(peers, ip, group, clock)
  /\ Seen(ip)
  /\ UNCHANGED <<routers, buf, src, out>>
  /\ Written("RecordMLDMembership")

RecordMAC(ip, mac) ==
  /\ events < MaxEvents
  /\ events' = events + 1
  /\ peers' = RecordMACBody(peers, ip, mac, clock)
  /\ Seen(ip)
  /\ UNCHANGED <<routers, buf, src, out>>
  /\ Written("RecordMAC")

Prune ==
  /\ peers' = PruneBody(peers, clock, window)
  /\ routers' = PruneRouters(routers, Cutoff(clock, window))
  /\ UNCHANGED <<events, firstEver, buf, src, out>>
  /\ Written("Prune")

\* (a snapshot that drops what is outside the window as it goes)
GetStatsPruning ==
  /\ snap' \in GetStatsResults(peers, clock, window)
  /\ peers' = PruneBody(peers, clock, window)
  /\ lastAt' = clock
  /\ lastOp' = "GetStats"
  /\ reads' = IF reads < 2 THEN reads + 1 ELSE 2
  /\ UNCHANGED <<clock, window, removed, events, prev, firstEver>>
  /\ UNCHANGED concVars
  /\ UNCHANGED listenerVars

GetStats ==
  /\ snap' \in GetStatsResults(peers, clock, window)
  /\ lastAt' = clock
  /\ lastOp' = "GetStats"
  /\ reads' = IF reads < 2 THEN reads + 1 ELSE 2
  /\ UNCHANGED <<clock, window, peers, removed, events, prev, firstEver>>
  /\ UNCHANGED concVars
  /\ UNCHANGED listenerVars

Next ==
  \/ Tick
  \/ \E ip \in Addrs, ndpKind \in Kinds : RecordMessage(ip, ndpKind)
  \/ \E ip \in Addrs, group \in GroupAddrs : RecordMLDMembership(ip, group)
  \/ \E ip \in Addrs, mac \in MACs : RecordMAC(ip, mac)
  \/ Prune
  \/ GetStats

Spec == Init /\ [][Next]_vars

\* ------------------------------------------ SpecConc: concurrent goroutines
\* sync.RWMutex.  Lock first shuts out the writers and readers that arrive
\* after it (mu.writer), then waits for the readers that are inside to leave.
CanLock(m) == m.writer = NoProc

\* (a Lock that does not wait for the readers)
CanEnterAlways(m) == TRUE

CanEnter(m) == m.readers = {}

\* (an RLock that does not wait for the writer)
CanRLockAlways(m) == TRUE

CanRLock(m) == m.writer = NoProc

\* the calls a goroutine can make; one message kind, one group and one MAC are
\* enough to tell the steps of the calls apart
StoreCalls ==
  [op : {"RecordMessage"}, ip : Addrs, ndpKind : {"router_solicitation"}]
    \cup [op : {"RecordMLDMembership"}, ip : Addrs, group : {"ff02::fb"}]
    \cup [op : {"RecordMAC"}, ip : Addrs, mac : {"aa:bb:cc:dd:ee:01"}]
    \cup {[op |-> "Prune"], [op |-> "GetStats"]}

\* the store when the goroutines start to overlap: new, or holding what the
\* listener records for one neighbor solicitation from fe80::1 at the first clock
\* reading
SeedStores ==
  {EmptyMap,
   RecordMACBody(RecordMessageBody(EmptyMap, "fe80::1", "neighbor_solicitation", StartTime),
                 "fe80::1", "aa:bb:cc:dd:ee:02", StartTime)}

InitConc ==
  /\ clock = StartTime
  /\ window \in 0..MaxWindow
  /\ peers \in SeedStores
  /\ snap = <<>>
  /\ lastAt = StartTime
  /\ removed = EmptyMap
  /\ lastOp = "NewNDPStats"
  /\ reads = 0
  /\ events = 0
  /\ prev = EmptyMap
  /\ firstEver = [a \in Addrs |-> ZeroTime]
  /\ mu = [writer |-> NoProc, readers |-> {}]
  /\ pc = [p \in Procs |-> "idle"]
  /\ call = [p \in Procs |-> NoCall]
  /\ local = [p \in Procs |-> NoLocal]
  /\ committed = peers
  /\ calls = 0
  /\ ListenerInit

Goto(p, where) == pc' = [pc EXCEPT ![p] = where]

\* a goroutine calls a method; RecordMessage and RecordMLDMembership read the
\* clock before they ask for the lock
StartCall(p, c) ==
  /\ pc[p] = "idle"
  /\ calls < MaxCalls
  /\ calls' = calls + 1
  /\ call' = [call EXCEPT ![p] = c]
  /\ local' = [local EXCEPT ![p] = [now |-> IF c.op \in {"RecordMessage", "RecordMLDMembership"} THEN clock ELSE 0]]
  /\ Goto(p, IF c.op = "GetStats" THEN "RLock" ELSE "Lock")
  /\ UNCHANGED <<mu, committed>>
  /\ UNCHANGED <<storeVars, seqVars, events, listenerVars>>

TickConc ==
  /\ clock < EndTime
  /\ clock' = clock + 1
  /\ UNCHANGED <<window, peers, seqVars, events, concVars, listenerVars>>

\* s.mu.Lock()
Lock(p) ==
  /\ pc[p] = "Lock"
  /\ CanLock(mu)
  /\ mu' = [mu EXCEPT !.writer = p]
  /\ Goto(p, "LockWait")
  /\ UNCHANGED <<call, local, committed, calls>>
  /\ UNCHANGED <<storeVars, seqVars, events, listenerVars>>

LockEnter(p) ==
  /\ pc[p] = "LockWait"
  /\ CanEnter(mu)
  /\ Goto(p, IF call[p].op = "Prune" THEN "cutoff" ELSE "getOrCreatePeer")
  /\ UNCHANGED <<mu, call, local, committed, calls>>
  /\ UNCHANGED <<storeVars, seqVars, events, listenerVars>>

\* (a getOrCreatePeer that calls s.mu.Lock() itself)
GetOrCreatePeerLocking(p) ==
  /\ pc[p] = "getOrCreatePeer"
  /\ CanLock(mu)
  /\ peers' = getOrCreatePeer(peers, call[p].ip, IF call[p].op = "RecordMAC" THEN clock ELSE local[p].now)
  /\ Goto(p, CASE call[p].op = "RecordMessage" -> "LastSeen"
               [] call[p].op = "RecordMLDMembership" -> "Groups"
               [] call[p].op = "RecordMAC" -> "MAC")
  /\ UNCHANGED <<clock, window, mu, call, local, committed, calls>>
  /\ UNCHANGED <<seqVars, events, listenerVars>>

\* peer := s.getOrCreatePeer(ip, now)
GetOrCreatePeer(p) ==
  /\ pc[p] = "getOrCreatePeer"
  /\ peers' = getOrCreatePeer(peers, call[p].ip, IF call[p].op = "RecordMAC" THEN clock ELSE local[p].now)
  /\ Goto(p, CASE call[p].op = "RecordMessage" -> "LastSeen"
               [] call[p].op = "RecordMLDMembership" -> "Groups"
               [] call[p].op = "RecordMAC" -> "MAC")
  /\ UNCHANGED <<clock, window, mu, call, local, committed, calls>>
  /\ UNCHANGED <<seqVars, events, listenerVars>>

\* peer.LastSeen = now
StoreLastSeen(p) ==
  /\ pc[p] = "LastSeen"
  /\ peers' = SetLastSeen(peers, call[p].ip, local[p].now)
  /\ Goto(p, "Messages")
  /\ UNCHANGED <<clock, window, mu, call, local, committed, calls>>
  /\ UNCHANGED <<seqVars, events, listenerVars>>

\* peer.Messages[ndpKind] = append(peer.Messages[ndpKind], now)
StoreMessage(p) ==
  /\ pc[p] = "Messages"
  /\ peers' = AppendMessage(peers, call[p].ip, call[p].ndpKind, local[p].now)
  /\ Goto(p, "Unlock")
  /\ UNCHANGED <<clock, window, mu, call, local, committed, calls>>
  /\ UNCHANGED <<seqVars, events, listenerVars>>

\* peer.Groups[group] = now
StoreGroup(p) ==
  /\ pc[p] = "Groups"
  /\ peers' = SetGroup(peers, call[p].ip, call[p].group, local[p].now)
  /\ Goto(p, "Unlock")
  /\ UNCHANGED <<clock, window, mu, call, local, committed, calls>>
  /\ UNCHANGED <<seqVars, events, listenerVars>>

\* peer.MAC = mac
StoreMAC(p) ==
  /\ pc[p] = "MAC"
  /\ peers' = SetMAC(peers, call[p].ip, call[p].mac)
  /\ Goto(p, "Unlock")
  /\ UNCHANGED <<clock, window, mu, call, local, committed, calls>>
  /\ UNCHANGED <<seqVars, events, listenerVars>>

\* Prune: cutoff := time.Now().Add(-s.window), and the range loop starts
PruneCutoff(p) ==
  /\ pc[p] = "cutoff"
  /\ local' = [local EXCEPT ![p] = [now |-> clock, todo |-> DOMAIN peers]]
  /\ Goto(p, "range")
  /\ UNCHANGED <<mu, call, committed, calls>>
  /\ UNCHANGED <<storeVars, seqVars, events, listenerVars>>

\* for addr, peer := range s.peers: the next peer, in any order, or the end
PruneRange(p) ==
  /\ pc[p] = "range"
  /\ \/ /\ local[p].todo = {}
        /\ Goto(p, "Unlock")
        /\ UNCHANGED local
     \/ \E addr \in local[p].todo :
          /\ local' = [local EXCEPT ![p] = [now |-> local[p].now, todo |-> local[p].todo \ {addr},
                                            addr |-> addr, totalKept |-> 0]]
          /\ Goto(p, "pruneMessages")
  /\ UNCHANGED <<mu, call, committed, calls>>
  /\ UNCHANGED <<storeVars, seqVars, events, listenerVars>>

\* the loop over peer.Messages
PruneStoreMessages(p) ==
  /\ pc[p] = "pruneMessages"
  /\ LET addr == local[p].addr
         cutoff == Cutoff(local[p].now, window)
     IN /\ local' = [local EXCEPT ![p].totalKept = totalKept(peers[addr].Messages, cutoff)]
        /\ peers' = [peers EXCEPT ![addr].Messages = PruneMessages(@, cutoff)]
  /\ Goto(p, "pruneGroups")
  /\ UNCHANGED <<clock, window, mu, call, committed, calls>>
  /\ UNCHANGED <<seqVars, events, listenerVars>>

\* the loop over peer.Groups, and then: if totalKept == 0 { delete(s.peers, addr) }
PruneStoreGroups(p) ==
  /\ pc[p] = "pruneGroups"
  /\ LET addr == local[p].addr
         cutoff == Cutoff(local[p].now, window)
     IN peers' = IF local[p].totalKept = 0
                 THEN MapDelete(peers, addr)
                 ELSE [peers EXCEPT ![addr].Groups = PruneGroups(@, cutoff)]
  /\ local' = [local EXCEPT ![p] = [now |-> local[p].now, todo |-> local[p].todo]]
  /\ Goto(p, "range")
  /\ UNCHANGED <<clock, window, mu, call, committed, calls>>
  /\ UNCHANGED <<seqVars, events, listenerVars>>

\* defer s.mu.Unlock()
Unlock(p) ==
  /\ pc[p] = "Unlock"
  /\ mu' = [mu EXCEPT !.writer = NoProc]
  /\ committed' = peers
  /\ call' = [call EXCEPT ![p] = NoCall]
  /\ local' = [local EXCEPT ![p] = NoLocal]
  /\ Goto(p, "idle")
  /\ UNCHANGED calls
  /\ UNCHANGED <<storeVars, seqVars, events, listenerVars>>

\* s.mu.RLock()
RLock(p) ==
  /\ pc[p] = "RLock"
  /\ CanRLock(mu)
  /\ mu' = [mu EXCEPT !.readers = @ \cup {p}]
  /\ Goto(p, "summaries")
  /\ UNCHANGED <<call, local, committed, calls>>
  /\ UNCHANGED <<storeVars, seqVars, events, listenerVars>>

\* GetStats between RLock and RUnlock: the cutoff, the range loop, the sort
ReadSummaries(p) ==
  /\ pc[p] = "summaries"
  /\ \E result \in GetStatsResults(peers, clock, window) :
       local' = [local EXCEPT ![p] = [now |-> clock, result |-> result]]
  /\ Goto(p, "RUnlock")
  /\ UNCHANGED <<mu, call, committed, calls>>
  /\ UNCHANGED <<storeVars, seqVars, events, listenerVars>>

\* defer s.mu.RUnlock(), and the return of summaries
RUnlock(p) ==
  /\ pc[p] = "RUnlock"
  /\ mu' = [mu EXCEPT !.readers = @ \ {p}]
  /\ call' = [call EXCEPT ![p] = NoCall]
  /\ local' = [local EXCEPT ![p] = NoLocal]
  /\ Goto(p, "idle")
  /\ UNCHANGED <<committed, calls>>
  /\ UNCHANGED <<storeVars, seqVars, events, listenerVars>>

NextConc ==
  \/ TickConc
  \/ \E p \in Procs :
       \/ \E c \in StoreCalls : StartCall(p, c)
       \/ Lock(p)
       \/ LockEnter(p)
       \/ GetOrCreatePeer(p)
       \/ StoreLastSeen(p)
       \/ StoreMessage(p)
       \/ StoreGroup(p)
       \/ StoreMAC(p)
       \/ PruneCutoff(p)
       \/ PruneRange(p)
       \/ PruneStoreMessages(p)
       \/ PruneStoreGroups(p)
       \/ Unlock(p)
       \/ RLock(p)
       \/ ReadSummaries(p)
       \/ RUnlock(p)

SpecConc == InitConc /\ [][NextConc]_vars

\* the steps of the goroutine p inside a call it has started
CallStep(p) ==
  \/ Lock(p)
  \/ LockEnter(p)
  \/ GetOrCreatePeer(p)
  \/ StoreLastSeen(p)
  \/ StoreMessage(p)
  \/ StoreGroup(p)
  \/ StoreMAC(p)
  \/ PruneCutoff(p)
  \/ PruneRange(p)
  \/ PruneStoreMessages(p)
  \/ PruneStoreGroups(p)
  \/ Unlock(p)
  \/ RLock(p)
  \/ ReadSummaries(p)
  \/ RUnlock(p)

\* the Go scheduler runs every goroutine that can run, and sync.RWMutex hands
\* the lock to a goroutine that waits for it: a waiting Lock shuts out later
\* RLocks, and a mutex that has waited long goes to its waiter first
\* (starvation mode)
\* The calls overlap within one reading of the clock: no step of the lock
\* reads it.
NextConcFair == \E p \in Procs : (\E c \in StoreCalls : StartCall(p, c)) \/ CallStep(p)

SpecConcFair ==
  /\ InitConc
  /\ [][NextConcFair]_vars
  /\ \A p \in Procs : WF_vars(CallStep(p)) /\ SF_vars(Lock(p)) /\ SF_vars(RLock(p))

\* ---------------------------------------------------- the listener's decoders
\* A buffer is a sequence of bytes; Go's buf[i] is the element i + 1.
Byte(b, i) == b[i + 1]

\* b[lo:hi]
Slice(b, lo, hi) == SubSeq(b, lo + 1, hi)

\* binary.BigEndian.Uint16(b[i:i+2])
Uint16(b, i) == Byte(b, i) * 256 + Byte(b, i + 1)

\* binary.BigEndian.Uint32(b[i:i+4])
Uint32(b, i) == ((Byte(b, i) * 256 + Byte(b, i + 1)) * 256 + Byte(b, i + 2)) * 256 + Byte(b, i + 3)

\* make([]byte, n)
Zeros(n) == [i \in 1..n |-> 0]

\* the 16-byte addresses of the model and the text net.IP.String gives for them
IPv6zero == Zeros(16)

IPv4zeroMapped == Zeros(10) \o <<255, 255, 0, 0, 0, 0>>

IPTexts ==
  {<<IPv6zero, "::">>,
   <<IPv4zeroMapped, "0.0.0.0">>,
   <<<<255, 2>> \o Zeros(13) \o <<251>>, "ff02::fb">>,
   <<<<255, 2>> \o Zeros(11) \o <<1, 0, 3>>, "ff02::1:3">>,
   <<<<32, 1, 13, 184>> \o Zeros(12), "2001:db8::">>,
   <<<<32, 1, 13, 184, 0, 1>> \o Zeros(10), "2001:db8:1::">>,
   <<<<32, 1, 13, 184>> \o Zeros(11) \o <<83>>, "2001:db8::53">>}

\* net.ParseIP(text).To16()
ParseIP(text) == (CHOOSE e \in IPTexts : e[2] = text)[1]

\* net.IP.String, for the addresses above
IPString(ip) == IF \E e \in IPTexts : e[1] = ip THEN (CHOOSE e \in IPTexts : e[1] = ip)[2] ELSE "?"

\* (a check that takes no address for the unspecified one)
IsUnspecifiedNever(ip) == FALSE

\* net.IP.IsUnspecified: ip.Equal(IPv4zero) || ip.Equal(IPv6unspecified)
IsUnspecified(ip) == ip = IPv4zeroMapped \/ ip = IPv6zero

\* the hardware addresses of the model and the text net.HardwareAddr.String
\* gives for them
MACTexts ==
  {<<<<170, 187, 204, 221, 238, 1>>, "aa:bb:cc:dd:ee:01">>,
   <<<<170, 187, 204, 221, 238, 2>>, "aa:bb:cc:dd:ee:02">>}

\* net.ParseMAC(text)
ParseMAC(text) == (CHOOSE e \in MACTexts : e[2] = text)[1]

HardwareAddrString(m) == IF \E e \in MACTexts : e[1] = m THEN (CHOOSE e \in MACTexts : e[1] = m)[2] ELSE "?"

\* fmt.Sprintf("%s/%d", prefix, prefixLen): the text names the pair and nothing else
PrefixText(ip, prefixLen) == <<IPString(ip), prefixLen>>

\* (a classifier that takes the MLDv2 report for an unknown type)
classifyICMPv6NoMLDv2(t) ==
  CASE t = 133 -> "router_solicitation"
    [] t = 134 -> "router_advertisement"
    [] t = 135 -> "neighbor_solicitation"
    [] t = 136 -> "neighbor_advertisement"
    [] t = 157 -> "duplicate_address_request"
    [] t = 158 -> "duplicate_address_confirmation"
    [] t = 137 -> "redirect"
    [] t = 130 -> "mld_query"
    [] t = 131 -> "mld_report"
    [] t = 132 -> "mld_done"
    [] OTHER -> ""

classifyICMPv6(t) ==
  CASE t = 133 -> "router_solicitation"
    [] t = 134 -> "router_advertisement"
    [] t = 135 -> "neighbor_solicitation"
    [] t = 136 -> "neighbor_advertisement"
    [] t = 157 -> "duplicate_address_request"
    [] t = 158 -> "duplicate_address_confirmation"
    [] t = 137 -> "redirect"
    [] t = 130 -> "mld_query"
    [] t = 131 -> "mld_report"
    [] t = 132 -> "mld_done"
    [] t = 143 -> "mld_report"
    [] OTHER -> ""

parseMLDv1Groups(b) ==
  IF Len(b) < 24 THEN <<>>
  ELSE LET group == Slice(b, 8, 24)
       IN IF IsUnspecified(group) THEN <<>> ELSE <<IPString(group)>>

\* (a loop that gives up the groups it has when a record does not fit)
RECURSIVE MLDv2RecordsAllOrNothing(_, _, _, _, _)
MLDv2RecordsAllOrNothing(b, numRecords, i, offset, groups) ==
  IF i >= numRecords THEN groups
  ELSE IF offset + 20 > Len(b) THEN <<>>
  ELSE LET auxDataLen == Byte(b, offset + 1)
           numSources == Uint16(b, offset + 2)
           group == Slice(b, offset + 4, offset + 20)
       IN MLDv2RecordsAllOrNothing(b, numRecords, i + 1, offset + 20 + numSources * 16 + auxDataLen * 4,
                                   IF IsUnspecified(group) THEN groups ELSE Append(groups, IPString(group)))

\* (a loop that takes every record for one of 20 bytes)
RECURSIVE MLDv2RecordsFixedStride(_, _, _, _, _)
MLDv2RecordsFixedStride(b, numRecords, i, offset, groups) ==
  IF i >= numRecords \/ offset + 20 > Len(b) THEN groups
  ELSE LET group == Slice(b, offset + 4, offset + 20)
       IN MLDv2RecordsFixedStride(b, numRecords, i + 1, offset + 20,
                                  IF IsUnspecified(group) THEN groups ELSE Append(groups, IPString(group)))

\* the loop of parseMLDv2Groups, from record i at offset on, with the groups
\* appended so far
RECURSIVE MLDv2Records(_, _, _, _, _)
MLDv2Records(b, numRecords, i, offset, groups) ==
  IF i >= numRecords \/ offset + 20 > Len(b) THEN groups
  ELSE LET auxDataLen == Byte(b, offset + 1)
           numSources == Uint16(b, offset + 2)
           group == Slice(b, offset + 4, offset + 20)
       IN MLDv2Records(b, numRecords, i + 1, offset + 20 + numSources * 16 + auxDataLen * 4,
                       IF IsUnspecified(group) THEN groups ELSE Append(groups, IPString(group)))

parseMLDv2Groups(b) ==
  IF Len(b) < 8 THEN <<>>
  ELSE LET numRecords == Uint16(b, 6)
       IN IF numRecords = 0 THEN <<>> ELSE MLDv2Records(b, numRecords, 0, 8, <<>>)

\* (a dispatch that passes over the MLDv1 Done)
parseMLDGroupsReportOnly(b) ==
  IF Len(b) < 4 THEN <<>>
  ELSE CASE Byte(b, 0) = 131 -> parseMLDv1Groups(b)
         [] Byte(b, 0) = 143 -> parseMLDv2Groups(b)
         [] OTHER -> <<>>

parseMLDGroups(b) ==
  IF Len(b) < 4 THEN <<>>
  ELSE CASE Byte(b, 0) \in {131, 132} -> parseMLDv1Groups(b)
         [] Byte(b, 0) = 143 -> parseMLDv2Groups(b)
         [] OTHER -> <<>>

\* (a table that takes the Redirect for a message with one address before its options)
ndpOptionsOffsetRedirectAt24(icmpType) ==
  CASE icmpType = 133 -> 8
    [] icmpType = 134 -> 16
    [] icmpType \in {135, 136, 137} -> 24
    [] OTHER -> -1

ndpOptionsOffset(icmpType) ==
  CASE icmpType = 133 -> 8
    [] icmpType = 134 -> 16
    [] icmpType \in {135, 136} -> 24
    [] icmpType = 137 -> 40
    [] OTHER -> -1

\* (a walk that takes every option for one of 8 bytes)
RECURSIVE LinkLayerWalkBy8(_, _, _)
LinkLayerWalkBy8(b, optionType, offset) ==
  IF offset + 2 > Len(b) THEN ""
  ELSE LET oType == Byte(b, offset)
           oLen == Byte(b, offset + 1) * 8
       IN IF oLen = 0 THEN ""
          ELSE IF offset + oLen > Len(b) THEN ""
          ELSE IF oType = optionType /\ oLen >= 8 THEN HardwareAddrString(Slice(b, offset + 2, offset + 8))
          ELSE LinkLayerWalkBy8(b, optionType, offset + 8)

\* the TLV walk of parseLinkLayerAddr from offset on
RECURSIVE LinkLayerWalk(_, _, _)
LinkLayerWalk(b, optionType, offset) ==
  IF offset + 2 > Len(b) THEN ""
  ELSE LET oType == Byte(b, offset)
           oLen == Byte(b, offset + 1) * 8
       IN IF oLen = 0 THEN ""
          ELSE IF offset + oLen > Len(b) THEN ""
          ELSE IF oType = optionType /\ oLen >= 8 THEN HardwareAddrString(Slice(b, offset + 2, offset + 8))
          ELSE LinkLayerWalk(b, optionType, offset + oLen)

parseLinkLayerAddr(b, optionType) ==
  IF Len(b) < 1 THEN ""
  ELSE LET offset == ndpOptionsOffset(Byte(b, 0))
       IN IF offset < 0 \/ Len(b) < offset THEN "" ELSE LinkLayerWalk(b, optionType, offset)

\* durations are whole seconds
parseRAPrefixInfo(opt, ri) ==
  [ri EXCEPT !.Prefixes = Append(@, [Prefix |-> PrefixText(Slice(opt, 16, 32), Byte(opt, 2)),
                                      ValidLifetime |-> Uint32(opt, 4),
                                      PreferredLife |-> Uint32(opt, 8),
                                      OnLink |-> Byte(opt, 3) >= 128,
                                      Autonomous |-> (Byte(opt, 3) \div 64) % 2 = 1])]

parseRARouteInfo(opt, oLen, ri) ==
  LET copyLen == IF oLen - 8 > 16 THEN 16 ELSE oLen - 8
      prefixBytes == IF copyLen > 0 /\ 8 + copyLen <= Len(opt)
                     THEN Slice(opt, 8, 8 + copyLen) \o Zeros(16 - copyLen)
                     ELSE Zeros(16)
  IN [ri EXCEPT !.Routes = Append(@, [Prefix |-> PrefixText(prefixBytes, Byte(opt, 2)),
                                       PrefixLen |-> Byte(opt, 2),
                                       Preference |-> (Byte(opt, 3) \div 8) % 4,
                                       Lifetime |-> Uint32(opt, 4)])]

\* the loop of parseRARDNSS from off on
RECURSIVE RDNSSFrom(_, _, _, _)
RDNSSFrom(opt, oLen, off, ri) ==
  IF off + 16 <= oLen /\ off + 16 <= Len(opt)
  THEN RDNSSFrom(opt, oLen, off + 16, [ri EXCEPT !.RDNSS = Append(@, IPString(Slice(opt, off, off + 16)))])
  ELSE ri

parseRARDNSS(opt, oLen, ri) == RDNSSFrom(opt, oLen, 8, ri)

\* (a walk that ends at an option it does not parse)
RECURSIVE RAOptionsStoppingAtUnknown(_, _, _)
RAOptionsStoppingAtUnknown(b, offset, ri) ==
  IF offset + 2 > Len(b) THEN ri
  ELSE LET oType == Byte(b, offset)
           oLen == Byte(b, offset + 1) * 8
           opt == Slice(b, offset, offset + oLen)
       IN IF oLen = 0 THEN ri
          ELSE IF offset + oLen > Len(b) THEN ri
          ELSE CASE oType = 3 /\ oLen >= 32 -> RAOptionsStoppingAtUnknown(b, offset + oLen, parseRAPrefixInfo(opt, ri))
                 [] oType = 5 /\ oLen >= 8 ->
                      RAOptionsStoppingAtUnknown(b, offset + oLen, [ri EXCEPT !.MTU = Uint32(b, offset + 4)])
                 [] oType = 24 /\ oLen >= 8 -> RAOptionsStoppingAtUnknown(b, offset + oLen, parseRARouteInfo(opt, oLen, ri))
                 [] oType = 25 /\ oLen >= 24 -> RAOptionsStoppingAtUnknown(b, offset + oLen, parseRARDNSS(opt, oLen, ri))
                 [] OTHER -> ri

\* (a walk that passes over an option of length 0 as one of 8 bytes)
RECURSIVE RAOptionsSkippingEmpty(_, _, _)
RAOptionsSkippingEmpty(b, offset, ri) ==
  IF offset + 2 > Len(b) THEN ri
  ELSE LET oType == Byte(b, offset)
           oLen == Byte(b, offset + 1) * 8
           opt == Slice(b, offset, offset + oLen)
       IN IF oLen = 0 THEN RAOptionsSkippingEmpty(b, offset + 8, ri)
          ELSE IF offset + oLen > Len(b) THEN ri
          ELSE RAOptionsSkippingEmpty(b, offset + oLen,
                 CASE oType = 3 /\ oLen >= 32 -> parseRAPrefixInfo(opt, ri)
                   [] oType = 5 /\ oLen >= 8 -> [ri EXCEPT !.MTU = Uint32(b, offset + 4)]
                   [] oType = 24 /\ oLen >= 8 -> parseRARouteInfo(opt, oLen, ri)
                   [] oType = 25 /\ oLen >= 24 -> parseRARDNSS(opt, oLen, ri)
                   [] OTHER -> ri)

\* the TLV walk of parseRA from offset on
RECURSIVE RAOptions(_, _, _)
RAOptions(b, offset, ri) ==
  IF offset + 2 > Len(b) THEN ri
  ELSE LET oType == Byte(b, offset)
           oLen == Byte(b, offset + 1) * 8
           opt == Slice(b, offset, offset + oLen)
       IN IF oLen = 0 THEN ri
          ELSE IF offset + oLen > Len(b) THEN ri
          ELSE RAOptions(b, offset + oLen,
                 CASE oType = 3 /\ oLen >= 32 -> parseRAPrefixInfo(opt, ri)
                   [] oType = 5 /\ oLen >= 8 -> [ri EXCEPT !.MTU = Uint32(b, offset + 4)]
                   [] oType = 24 /\ oLen >= 8 -> parseRARouteInfo(opt, oLen, ri)
                   [] oType = 25 /\ oLen >= 24 -> parseRARDNSS(opt, oLen, ri)
                   [] OTHER -> ri)

\* the nil *RouterInfo
NilRouterInfo == [nil |-> TRUE]

\* (a decoder that takes a Router Advertisement without an option for too short)
parseRAWithOption(b, srcIP, mac, hopLimit, ifName, now) ==
  IF Len(b) < 24 THEN NilRouterInfo
  ELSE RAOptions(b, 16,
         [Address |-> srcIP, MAC |-> mac, Interface |-> ifName, LastSeen |-> now,
          HopLimit |-> IF Byte(b, 4) = 0 /\ hopLimit # 0 THEN hopLimit ELSE Byte(b, 4),
          Managed |-> Byte(b, 5) >= 128,
          Other |-> (Byte(b, 5) \div 64) % 2 = 1,
          Lifetime |-> Uint16(b, 6),
          MTU |-> 0, Prefixes |-> <<>>, Routes |-> <<>>, RDNSS |-> <<>>])

\* (a decoder that takes the hop limit of the control message when there is one)
parseRAControlFirst(b, srcIP, mac, hopLimit, ifName, now) ==
  IF Len(b) < 16 THEN NilRouterInfo
  ELSE RAOptions(b, 16,
         [Address |-> srcIP, MAC |-> mac, Interface |-> ifName, LastSeen |-> now,
          HopLimit |-> IF hopLimit # 0 THEN hopLimit ELSE Byte(b, 4),
          Managed |-> Byte(b, 5) >= 128,
          Other |-> (Byte(b, 5) \div 64) % 2 = 1,
          Lifetime |-> Uint16(b, 6),
          MTU |-> 0, Prefixes |-> <<>>, Routes |-> <<>>, RDNSS |-> <<>>])

parseRA(b, srcIP, mac, hopLimit, ifName, now) ==
  IF Len(b) < 16 THEN NilRouterInfo
  ELSE RAOptions(b, 16,
         [Address |-> srcIP, MAC |-> mac, Interface |-> ifName, LastSeen |-> now,
          HopLimit |-> IF Byte(b, 4) = 0 /\ hopLimit # 0 THEN hopLimit ELSE Byte(b, 4),
          Managed |-> Byte(b, 5) >= 128,
          Other |-> (Byte(b, 5) \div 64) % 2 = 1,
          Lifetime |-> Uint16(b, 6),
          MTU |-> 0, Prefixes |-> <<>>, Routes |-> <<>>, RDNSS |-> <<>>])

\* ------------------------------------------- one turn of the decoders' loops
\* the value that stands for a loop that has ended, by its condition, a break
\* or a return
LoopExit == -1

\* (a turn without the break at an option of length 0)
LinkLayerWalkNextNoBreak(b, optionType, offset) ==
  IF offset + 2 > Len(b) THEN LoopExit
  ELSE LET oType == Byte(b, offset)
           oLen == Byte(b, offset + 1) * 8
       IN IF offset + oLen > Len(b) THEN LoopExit
          ELSE IF oType = optionType /\ oLen >= 8 THEN LoopExit
          ELSE offset + oLen

\* the offset with which the loop of parseLinkLayerAddr goes on after the turn
\* it starts with offset
LinkLayerWalkNext(b, optionType, offset) ==
  IF offset + 2 > Len(b) THEN LoopExit
  ELSE LET oType == Byte(b, offset)
           oLen == Byte(b, offset + 1) * 8
       IN IF oLen = 0 THEN LoopExit
          ELSE IF offset + oLen > Len(b) THEN LoopExit
          ELSE IF oType = optionType /\ oLen >= 8 THEN LoopExit
          ELSE offset + oLen

\* the offset with which the option loop of parseRA goes on
RAOptionsNext(b, offset) ==
  IF offset + 2 > Len(b) THEN LoopExit
  ELSE LET oLen == Byte(b, offset + 1) * 8
       IN IF oLen = 0 THEN LoopExit
          ELSE IF offset + oLen > Len(b) THEN LoopExit
          ELSE offset + oLen

\* the offset with which the record loop of parseMLDv2Groups goes on after
\* the turn for record i, which is followed by the turn for record i + 1
MLDv2RecordsNext(b, numRecords, i, offset) ==
  IF i >= numRecords \/ offset + 20 > Len(b) THEN LoopExit
  ELSE offset + 20 + Uint16(b, offset + 2) * 16 + Byte(b, offset + 1) * 4

\* ------------------------------------------- the bytes the decoders read
\* An access is the pair of an index and the length of the slice it is read
\* from; a slice expression s[lo:hi] is the access of its first and last byte.
At(s, i) == {<<i, Len(s)>>}

Span(s, lo, hi) == {<<lo, Len(s)>>, <<hi - 1, Len(s)>>}

\* no access of the set is outside its slice: Go panics on one that is
InBounds(accesses) == \A a \in accesses : a[1] >= 0 /\ a[1] < a[2]

\* (a walk that returns the address of an option without the check that the
\* option ends inside the buffer)
RECURSIVE LinkLayerWalkReadsUnchecked(_, _, _)
LinkLayerWalkReadsUnchecked(b, optionType, offset) ==
  IF offset + 2 > Len(b) THEN {}
  ELSE LET header == At(b, offset) \cup At(b, offset + 1)
       IN IF ~InBounds(header) THEN header
          ELSE LET oType == Byte(b, offset)
                   oLen == Byte(b, offset + 1) * 8
               IN IF oLen = 0 THEN header
                  ELSE IF oType = optionType /\ oLen >= 8 THEN header \cup Span(b, offset + 2, offset + 8)
                  ELSE header \cup LinkLayerWalkReadsUnchecked(b, optionType, offset + oLen)

\* the accesses of the TLV walk of parseLinkLayerAddr from offset on; the walk
\* ends at an access that is out of bounds
RECURSIVE LinkLayerWalkReads(_, _, _)
LinkLayerWalkReads(b, optionType, offset) ==
  IF offset + 2 > Len(b) THEN {}
  ELSE LET header == At(b, offset) \cup At(b, offset + 1)
       IN IF ~InBounds(header) THEN header
          ELSE LET oType == Byte(b, offset)
                   oLen == Byte(b, offset + 1) * 8
               IN IF oLen = 0 THEN header
                  ELSE IF offset + oLen > Len(b) THEN header
                  ELSE IF oType = optionType /\ oLen >= 8 THEN header \cup Span(b, offset + 2, offset + 8)
                  ELSE header \cup LinkLayerWalkReads(b, optionType, offset + oLen)

parseLinkLayerAddrReads(b, optionType) ==
  IF Len(b) < 1 THEN {}
  ELSE LET offset == ndpOptionsOffset(Byte(b, 0))
       IN At(b, 0) \cup (IF offset < 0 \/ Len(b) < offset THEN {} ELSE LinkLayerWalkReads(b, optionType, offset))

parseRAPrefixInfoReads(opt) ==
  At(opt, 2) \cup At(opt, 3) \cup Span(opt, 4, 8) \cup Span(opt, 8, 12) \cup Span(opt, 16, 32)

parseRARouteInfoReads(opt, oLen) ==
  LET copyLen == IF oLen - 8 > 16 THEN 16 ELSE oLen - 8
  IN At(opt, 2) \cup At(opt, 3) \cup Span(opt, 4, 8)
       \cup (IF copyLen > 0 /\ 8 + copyLen <= Len(opt) THEN Span(opt, 8, 8 + copyLen) ELSE {})

RECURSIVE RDNSSFromReads(_, _, _)
RDNSSFromReads(opt, oLen, off) ==
  IF off + 16 <= oLen /\ off + 16 <= Len(opt)
  THEN Span(opt, off, off + 16) \cup RDNSSFromReads(opt, oLen, off + 16)
  ELSE {}

parseRARDNSSReads(opt, oLen) == RDNSSFromReads(opt, oLen, 8)

\* the accesses of the TLV walk of parseRA from offset on
RECURSIVE RAOptionsReads(_, _)
RAOptionsReads(b, offset) ==
  IF offset + 2 > Len(b) THEN {}
  ELSE LET header == At(b, offset) \cup At(b, offset + 1)
       IN IF ~InBounds(header) THEN header
          ELSE LET oType == Byte(b, offset)
                   oLen == Byte(b, offset + 1) * 8
                   opt == Slice(b, offset, offset + oLen)
               IN IF oLen = 0 THEN header
                  ELSE IF offset + oLen > Len(b) THEN header
                  ELSE header
                         \cup (CASE oType = 3 /\ oLen >= 32 -> Span(b, offset, offset + oLen) \cup parseRAPrefixInfoReads(opt)
                                 [] oType = 5 /\ oLen >= 8 -> Span(b, offset + 4, offset + 8)
                                 [] oType = 24 /\ oLen >= 8 -> Span(b, offset, offset + oLen) \cup parseRARouteInfoReads(opt, oLen)
                                 [] oType = 25 /\ oLen >= 24 -> Span(b, offset, offset + oLen) \cup parseRARDNSSReads(opt, oLen)
                                 [] OTHER -> {})
                         \cup RAOptionsReads(b, offset + oLen)

parseRAReads(b) ==
  IF Len(b) < 16 THEN {}
  ELSE At(b, 4) \cup At(b, 5) \cup Span(b, 6, 8) \cup RAOptionsReads(b, 16)

parseMLDv1GroupsReads(b) == IF Len(b) < 24 THEN {} ELSE Span(b, 8, 24)

\* the accesses of the loop of parseMLDv2Groups from record i at offset on
RECURSIVE MLDv2RecordsReads(_, _, _, _)
MLDv2RecordsReads(b, numRecords, i, offset) ==
  IF i >= numRecords \/ offset + 20 > Len(b) THEN {}
  ELSE LET fixed == At(b, offset + 1) \cup Span(b, offset + 2, offset + 4) \cup Span(b, offset + 4, offset + 20)
       IN IF ~InBounds(fixed) THEN fixed
          ELSE fixed \cup MLDv2RecordsReads(b, numRecords, i + 1,
                                            offset + 20 + Uint16(b, offset + 2) * 16 + Byte(b, offset + 1) * 4)

parseMLDv2GroupsReads(b) ==
  IF Len(b) < 8 THEN {}
  ELSE Span(b, 6, 8) \cup (IF Uint16(b, 6) = 0 THEN {} ELSE MLDv2RecordsReads(b, Uint16(b, 6), 0, 8))

parseMLDGroupsReads(b) ==
  IF Len(b) < 4 THEN {}
  ELSE At(b, 0) \cup (CASE Byte(b, 0) \in {131, 132} -> parseMLDv1GroupsReads(b)
                        [] Byte(b, 0) = 143 -> parseMLDv2GroupsReads(b)
                        [] OTHER -> {})

\* ------------------------------------------------------- the packets decoded
\* the multicast addresses a report can carry
ReportedIPs == {IPv6zero, IPv4zeroMapped, ParseIP("ff02::fb"), ParseIP("ff02::1:3")}

buildMLDv1Report(group) == <<131>> \o Zeros(7) \o group

buildMLDv1Done(group) == <<132>> \o Zeros(7) \o group

RECURSIVE MLDv2RecordBytes(_)
MLDv2RecordBytes(groups) ==
  IF groups = <<>> THEN <<>> ELSE <<4, 0, 0, 0>> \o Head(groups) \o MLDv2RecordBytes(Tail(groups))

buildMLDv2Report(groups) ==
  <<143, 0, 0, 0, 0, 0, Len(groups) \div 256, Len(groups) % 256>> \o MLDv2RecordBytes(groups)

PutUint16(n) == <<n \div 256, n % 256>>

PutUint32(n) == <<n \div 16777216, (n \div 65536) % 256, (n \div 256) % 256, n % 256>>

buildRS(srcMAC) == <<133>> \o Zeros(7) \o <<1, 1>> \o srcMAC

buildPrefixInfoOption(prefix, prefixLen, onLink, autonomous, validLife, prefLife) ==
  <<3, 4, prefixLen, (IF onLink THEN 128 ELSE 0) + (IF autonomous THEN 64 ELSE 0)>>
    \o PutUint32(validLife) \o PutUint32(prefLife) \o Zeros(4) \o prefix

buildMTUOption(mtu) == <<5, 1, 0, 0>> \o PutUint32(mtu)

\* one server
buildRDNSSOption(lifetime, server) == <<25, 3, 0, 0>> \o PutUint32(lifetime) \o server

\* a prefix of 1 to 64 bits
buildRouteInfoOption(prefix, prefixLen, pref, lifetime) ==
  <<24, 2, prefixLen, (pref % 4) * 8>> \o PutUint32(lifetime) \o SubSeq(prefix, 1, 8)

\* srcMAC is <<>> for no Source Link-Layer Address option
buildRAFull(hopLimit, managed, other, lifetime, srcMAC, options) ==
  <<134, 0, 0, 0, hopLimit, (IF managed THEN 128 ELSE 0) + (IF other THEN 64 ELSE 0)>>
    \o PutUint16(lifetime) \o Zeros(8)
    \o (IF Len(srcMAC) = 6 THEN <<1, 1>> \o srcMAC ELSE <<>>)
    \o options

\* a Router Advertisement with every option, as TestParseRA_AllOptions builds it
RAAllOptions ==
  buildRAFull(64, TRUE, TRUE, 1800, ParseMAC("aa:bb:cc:dd:ee:01"),
              buildPrefixInfoOption(ParseIP("2001:db8::"), 64, TRUE, TRUE, 86400, 14400)
                \o buildMTUOption(1500)
                \o buildRDNSSOption(3600, ParseIP("2001:db8::53"))
                \o buildRouteInfoOption(ParseIP("2001:db8:1::"), 48, 0, 3600))

\* a Router Advertisement with another prefix and nothing else
RAOnePrefix ==
  buildRAFull(0, FALSE, FALSE, 600, <<>>,
              buildPrefixInfoOption(ParseIP("2001:db8:1::"), 48, TRUE, FALSE, 7200, 3600))

\* the packets the listener reads: the last one is an echo request
Packets ==
  {buildRS(ParseMAC("aa:bb:cc:dd:ee:02")),
   RAAllOptions,
   RAOnePrefix,
   buildMLDv1Report(ParseIP("ff02::fb")),
   buildMLDv1Done(IPv6zero),
   buildMLDv2Report(<<IPv6zero, ParseIP("ff02::1:3")>>),
   <<128, 0, 0, 0>>}

\* a packet of four bytes for every value of the type byte
TypeOnlyPackets == {<<t, 0, 0, 0>> : t \in 0..255}

MLDPackets ==
  {buildMLDv1Report(g) : g \in ReportedIPs}
    \cup {buildMLDv1Done(g) : g \in ReportedIPs}
    \cup {buildMLDv2Report(gs) : gs \in UNION {[1..n -> ReportedIPs] : n \in 0..MaxRecords}}

\* one record of an MLDv2 report with its source addresses and auxiliary data:
\* recordType(1) + auxDataLen(1) + numSources(2) + multicastAddr(16), then
\* numSources addresses of 16 bytes and auxDataLen words of 4 bytes
RECURSIVE Repeat(_, _)
Repeat(bytes, n) == IF n = 0 THEN <<>> ELSE bytes \o Repeat(bytes, n - 1)

MLDv2Record(group, numSources, auxDataLen) ==
  <<4, auxDataLen>> \o PutUint16(numSources) \o group
    \o Repeat(ParseIP("2001:db8::53"), numSources) \o Repeat(<<0, 0, 0, 1>>, auxDataLen)

RECURSIVE Flatten(_)
Flatten(chain) == IF chain = <<>> THEN <<>> ELSE Head(chain) \o Flatten(Tail(chain))

\* a report that declares numRecords records and carries the given ones
buildMLDv2ReportOf(numRecords, records) ==
  <<143, 0, 0, 0, 0, 0>> \o PutUint16(numRecords) \o Flatten(records)

\* the records of the reports: without sources, and with a source and a word
\* of auxiliary data
MLDv2RecordSet ==
  {MLDv2Record(g, 0, 0) : g \in ReportedIPs}
    \cup {MLDv2Record(ParseIP("ff02::fb"), 1, 1), MLDv2Record(IPv6zero, 1, 0)}

\* every sequence of at most n elements of S
Chains(S, n) == UNION {[1..k -> S] : k \in 0..n}

\* reports that declare the records they carry, and reports that declare one
MLDv2SourcePackets ==
  {buildMLDv2ReportOf(Len(rs), rs) : rs \in Chains(MLDv2RecordSet, MaxRecords)}
    \cup {buildMLDv2ReportOf(1, rs) : rs \in Chains(MLDv2RecordSet, MaxRecords)}

buildNS(targetIP, srcMAC) == <<135>> \o Zeros(7) \o targetIP \o <<1, 1>> \o srcMAC

buildNA(targetIP, targetMAC) == <<136, 0, 0, 0, 224, 0, 0, 0>> \o targetIP \o <<2, 1>> \o targetMAC

buildRA(srcMAC) == <<134, 0, 0, 0, 64>> \o Zeros(11) \o <<1, 1>> \o srcMAC

\* the fixed part of a message that carries NDP options, as the builders above
\* lay it out (a Redirect has two addresses before its options)
NDPHeader(icmpType) ==
  CASE icmpType = 133 -> <<133>> \o Zeros(7)
    [] icmpType = 135 -> <<135>> \o Zeros(7) \o ParseIP("2001:db8::53")
    [] icmpType = 136 -> <<136, 0, 0, 0, 224, 0, 0, 0>> \o ParseIP("2001:db8::53")
    [] icmpType = 137 -> <<137>> \o Zeros(7) \o ParseIP("2001:db8::53") \o ParseIP("2001:db8:1::")

\* the options of the solicitations, advertisements and redirects: Source and
\* Target Link-Layer Address, the 8-byte option of type 3 of
\* TestParseLinkLayerAddr_MultipleOptions, a Source option of length 0 and one
\* of 16 bytes
LinkLayerOptions ==
  {<<1, 1>> \o ParseMAC("aa:bb:cc:dd:ee:01"),
   <<1, 1>> \o ParseMAC("aa:bb:cc:dd:ee:02"),
   <<2, 1>> \o ParseMAC("aa:bb:cc:dd:ee:02"),
   <<3, 1>> \o Zeros(6),
   <<1, 0>> \o ParseMAC("aa:bb:cc:dd:ee:01"),
   <<1, 2>> \o ParseMAC("aa:bb:cc:dd:ee:01")}

LinkLayerPackets ==
  {buildNS(ParseIP("2001:db8::53"), ParseMAC("aa:bb:cc:dd:ee:01")),
   buildNA(ParseIP("2001:db8::53"), ParseMAC("aa:bb:cc:dd:ee:02")),
   buildRS(ParseMAC("aa:bb:cc:dd:ee:02")),
   buildRA(ParseMAC("aa:bb:cc:dd:ee:01"))}
    \cup {NDPHeader(t) \o Flatten(c) : t \in {133, 135, 136, 137}, c \in Chains(LinkLayerOptions, MaxOptions)}

\* the options of the Router Advertisements: the four of RAAllOptions, an MTU
\* option of length 0 and a Source Link-Layer Address
RAOptionSet ==
  {buildPrefixInfoOption(ParseIP("2001:db8::"), 64, TRUE, TRUE, 86400, 14400),
   buildMTUOption(1500),
   buildRDNSSOption(3600, ParseIP("2001:db8::53")),
   buildRouteInfoOption(ParseIP("2001:db8:1::"), 48, 1, 3600),
   <<5, 0, 0, 0>> \o PutUint32(9000),
   <<1, 1>> \o ParseMAC("aa:bb:cc:dd:ee:01")}

\* a Router Advertisement whose third option has length 0
RAStoppedMidway ==
  buildRAFull(64, FALSE, TRUE, 1800, <<>>,
              buildPrefixInfoOption(ParseIP("2001:db8::"), 64, TRUE, TRUE, 86400, 14400)
                \o buildMTUOption(1500)
                \o <<25, 0, 0, 0>> \o PutUint32(3600) \o ParseIP("2001:db8::53")
                \o buildRouteInfoOption(ParseIP("2001:db8:1::"), 48, 1, 3600))

\* options parseRA has no case for: a type it does not know, a Prefix
\* Information option of 8 bytes and an RDNSS option of 16 bytes
SkippedOptions == {<<99, 1>> \o Zeros(6), <<3, 1>> \o Zeros(6), <<25, 2>> \o Zeros(14)}

\* the options parseRA has a case for, as RAAllOptions carries them
RecognizedOptions ==
  {buildPrefixInfoOption(ParseIP("2001:db8::"), 64, TRUE, TRUE, 86400, 14400),
   buildMTUOption(1500),
   buildRDNSSOption(3600, ParseIP("2001:db8::53")),
   buildRouteInfoOption(ParseIP("2001:db8:1::"), 48, 1, 3600)}

\* Router Advertisements with an option of RecognizedOptions behind one of
\* SkippedOptions
RASkippingPackets ==
  {buildRAFull(64, TRUE, FALSE, 1800, <<>>, skipped \o option) :
     skipped \in SkippedOptions, option \in RecognizedOptions}

RAPackets ==
  {RAAllOptions, RAOnePrefix, RAStoppedMidway}
    \cup RASkippingPackets
    \cup {buildRAFull(64, TRUE, TRUE, 1800, <<>>, Flatten(c)) : c \in Chains(RAOptionSet, MaxOptions)}
    \cup {buildRAFull(0, FALSE, FALSE, 0, <<>>, Flatten(c)) : c \in Chains(RAOptionSet, MaxOptions)}

\* every packet, and every packet cut short
Prefixes(b) == {SubSeq(b, 1, n) : n \in 0..Len(b)}

Buffers ==
  TypeOnlyPackets
    \cup UNION {Prefixes(b) : b \in MLDPackets \cup MLDv2SourcePackets \cup LinkLayerPackets \cup RAPackets}

\* ------------------------------------- SpecParse: a decoder applied to a packet
InitParse ==
  /\ clock = StartTime
  /\ window = 0
  /\ peers = EmptyMap
  /\ snap = <<>>
  /\ lastAt = StartTime
  /\ removed = EmptyMap
  /\ lastOp = "NewNDPStats"
  /\ reads = 0
  /\ events = 0
  /\ prev = EmptyMap
  /\ firstEver = [a \in Addrs |-> ZeroTime]
  /\ ConcInit
  /\ routers = EmptyMap
  /\ rsnap = <<>>
  /\ buf \in Buffers
  /\ src = NoSrc
  /\ out = NoResult

Decoded(result) ==
  /\ out' = result
  /\ UNCHANGED <<storeVars, seqVars, events, concVars, routers, rsnap, buf, src>>

\* ndpKind := classifyICMPv6(msg.Type), for a packet icmp.ParseMessage accepts
ClassifyICMPv6 ==
  /\ Len(buf) >= 4
  /\ Decoded([fn |-> "classifyICMPv6", ndpKind |-> classifyICMPv6(Byte(buf, 0))])

ParseMLDGroups ==
  Decoded([fn |-> "parseMLDGroups", groups |-> parseMLDGroups(buf), reads |-> parseMLDGroupsReads(buf)])

\* offset := ndpOptionsOffset(buf[0]), behind the len(buf) < 1 check of
\* parseLinkLayerAddr
NdpOptionsOffset ==
  /\ Len(buf) >= 1
  /\ Decoded([fn |-> "ndpOptionsOffset", offset |-> ndpOptionsOffset(Byte(buf, 0))])

\* parseLinkLayerAddr(buf[:n], 1) and parseLinkLayerAddr(buf[:n], 2)
ParseLinkLayerAddr(optionType) ==
  Decoded([fn |-> "parseLinkLayerAddr", optionType |-> optionType,
           mac |-> parseLinkLayerAddr(buf, optionType),
           reads |-> parseLinkLayerAddrReads(buf, optionType)])

\* the hop limits the control message of a packet gives: 0 stands for none
HopLimits == {0, 255}

\* parseRA(buf[:n], srcIP.String(), mac, hopLim, ifName), with the mac Run
\* passes for a Router Advertisement
ParseRA(hopLimit) ==
  Decoded([fn |-> "parseRA", hopLimit |-> hopLimit,
           ri |-> parseRA(buf, "fe80::1", parseLinkLayerAddr(buf, 1), hopLimit, "", clock),
           reads |-> parseRAReads(buf)])

NextParse ==
  \/ ClassifyICMPv6
  \/ ParseMLDGroups
  \/ NdpOptionsOffset
  \/ \E optionType \in {1, 2} : ParseLinkLayerAddr(optionType)
  \/ \E hopLimit \in HopLimits : ParseRA(hopLimit)

SpecParse == InitParse /\ [][NextParse]_vars

\* ----------------------------- SpecListener: the listener feeding the store
\* RecordRouter(info): the router table maps info.Address to info
RecordRouterBody(rs, info) == MapPut(rs, info.Address, info)

\* every value GetRouters can return for the router table rs
GetRoutersResults(rs) == {[i \in 1..Len(order) |-> rs[order[i]]] : order \in RangeOrders(DOMAIN rs)}

\* mac of NDPListener.Run: the link-layer address of the packet's options
RunMAC(b, ndpKind) ==
  CASE ndpKind \in {"router_solicitation", "router_advertisement", "neighbor_solicitation"} -> parseLinkLayerAddr(b, 1)
    [] ndpKind = "neighbor_advertisement" -> parseLinkLayerAddr(b, 2)
    [] OTHER -> ""

\* for _, group := range parseMLDGroups(buf[:n]) { RecordMLDMembership(srcIP, group) }
RECURSIVE RunGroups(_, _, _, _)
RunGroups(ps, srcIP, groups, now) ==
  IF groups = <<>> THEN ps
  ELSE RunGroups(RecordMLDMembershipBody(ps, srcIP, Head(groups), now), srcIP, Tail(groups), now)

\* (a listener that takes the sender of a Done out of the groups it names)
RunPeersLeavingOnDone(ps, b, srcIP, ndpKind, now) ==
  LET mac == RunMAC(b, ndpKind)
      ps1 == RecordMessageBody(ps, srcIP, ndpKind, now)
      ps2 == IF mac # "" THEN RecordMACBody(ps1, srcIP, mac, now) ELSE ps1
      left == {parseMLDGroups(b)[i] : i \in 1..Len(parseMLDGroups(b))}
  IN CASE ndpKind = "mld_report" -> RunGroups(ps2, srcIP, parseMLDGroups(b), now)
       [] ndpKind = "mld_done" ->
            [ps2 EXCEPT ![srcIP].Groups = [g \in (DOMAIN ps2[srcIP].Groups) \ left |-> ps2[srcIP].Groups[g]]]
       [] OTHER -> ps2

\* what NDPListener.Run does to the peer table for a packet of kind ndpKind
RunPeers(ps, b, srcIP, ndpKind, now) ==
  LET mac == RunMAC(b, ndpKind)
      ps1 == RecordMessageBody(ps, srcIP, ndpKind, now)
      ps2 == IF mac # "" THEN RecordMACBody(ps1, srcIP, mac, now) ELSE ps1
  IN IF ndpKind \in {"mld_report", "mld_done"} THEN RunGroups(ps2, srcIP, parseMLDGroups(b), now) ELSE ps2

\* (a listener that records a router only when its address is not in the table)
RunRoutersOnlyNew(rs, b, srcIP, ndpKind, now) ==
  IF ndpKind = "router_advertisement" /\ srcIP \notin DOMAIN rs
  THEN LET ri == parseRA(b, srcIP, RunMAC(b, ndpKind), 0, "", now)
       IN IF ri # NilRouterInfo THEN RecordRouterBody(rs, ri) ELSE rs
  ELSE rs

\* what NDPListener.Run does to the router table: the packets of the model come
\* without control message (cm == nil), so hopLim is 0 and ifName is ""
RunRouters(rs, b, srcIP, ndpKind, now) ==
  IF ndpKind = "router_advertisement"
  THEN LET ri == parseRA(b, srcIP, RunMAC(b, ndpKind), 0, "", now)
       IN IF ri # NilRouterInfo THEN RecordRouterBody(rs, ri) ELSE rs
  ELSE rs

\* (a listener that passes over only the packets icmp.ParseMessage rejects)
IgnoredOnlyShort(b) == Len(b) < 4

\* icmp.ParseMessage fails on fewer than four bytes, and a packet that is no
\* NDP or MLD message is passed over
Ignored(b) == Len(b) < 4 \/ classifyICMPv6(Byte(b, 0)) = ""

\* one turn of the loop of NDPListener.Run: the packet b from srcIP is read,
\* classified and recorded
Run(srcIP, b) ==
  /\ events < MaxEvents
  /\ events' = events + 1
  /\ buf' = b
  /\ src' = srcIP
  /\ IF Ignored(b)
     THEN /\ lastOp' = "Run"
          /\ lastAt' = clock
          /\ UNCHANGED <<clock, window, peers, snap, removed, reads, prev, firstEver, routers, rsnap>>
          /\ UNCHANGED concVars
     ELSE /\ peers' = RunPeers(peers, b, srcIP, classifyICMPv6(Byte(b, 0)), clock)
          /\ routers' = RunRouters(routers, b, srcIP, classifyICMPv6(Byte(b, 0)), clock)
          /\ Seen(srcIP)
          /\ Written("Run")
  /\ UNCHANGED out

GetRouters ==
  /\ rsnap' \in GetRoutersResults(routers)
  /\ lastAt' = clock
  /\ lastOp' = "GetRouters"
  /\ UNCHANGED <<clock, window, peers, snap, removed, reads, events, prev, firstEver>>
  /\ UNCHANGED concVars
  /\ UNCHANGED <<routers, buf, src, out>>

NextListener ==
  \/ Tick
  \/ \E srcIP \in Addrs, b \in Packets : Run(srcIP, b)
  \/ Prune
  \/ GetRouters

SpecListener == Init /\ [][NextListener]_vars

\* --------------------- SpecMembership: MLD packets, Prune and the snapshots
\* the MLD packets the listener reads: a host joins ff02::fb and leaves it, and
\* another report names ff02::1:3
MembershipPackets ==
  {buildMLDv1Report(ParseIP("ff02::fb")),
   buildMLDv1Done(ParseIP("ff02::fb")),
   buildMLDv2Report(<<ParseIP("ff02::1:3")>>)}

NextMembership ==
  \/ Tick
  \/ \E srcIP \in Addrs, b \in MembershipPackets : Run(srcIP, b)
  \/ Prune
  \/ GetStats

SpecMembership == Init /\ [][NextMembership]_vars

\* ------------------------- SpecPipeline: the listener next to the prune timer
\* the goroutine that runs NDPListener.Run; pc tells which store call of the
\* packet in buf it makes next, and the timer goroutine calls Prune in between
ListenerGoroutine == "g1"

\* the packet b from srcIP is read and classified, and
\* l.cfg.Stats.RecordMessage(srcIP, ndpKind) is called
RunRecordMessage(srcIP, b) ==
  /\ pc[ListenerGoroutine] = "idle"
  /\ events < MaxEvents
  /\ events' = events + 1
  /\ buf' = b
  /\ src' = srcIP
  /\ lastOp' = "RecordMessage"
  /\ IF Ignored(b)
     THEN UNCHANGED <<peers, pc>>
     ELSE /\ peers' = RecordMessageBody(peers, srcIP, classifyICMPv6(Byte(b, 0)), clock)
          /\ Goto(ListenerGoroutine, "RecordMAC")
  /\ UNCHANGED <<clock, window, snap, lastAt, removed, reads, prev, firstEver>>
  /\ UNCHANGED <<mu, call, local, committed, calls, routers, rsnap, out>>

\* if mac != "" { l.cfg.Stats.RecordMAC(srcIP, mac) }
RunRecordMAC ==
  /\ pc[ListenerGoroutine] = "RecordMAC"
  /\ LET mac == RunMAC(buf, classifyICMPv6(Byte(buf, 0)))
     IN peers' = IF mac # "" THEN RecordMACBody(peers, src, mac, clock) ELSE peers
  /\ lastOp' = "RecordMAC"
  /\ Goto(ListenerGoroutine, "RecordRouter")
  /\ UNCHANGED <<clock, window, snap, lastAt, removed, reads, events, prev, firstEver>>
  /\ UNCHANGED <<mu, call, local, committed, calls, listenerVars>>

\* if ri := parseRA(...); ri != nil { l.cfg.Stats.RecordRouter(*ri) }, and
\* parseMLDGroups(buf[:n]) is evaluated for the range loop
RunRecordRouter ==
  /\ pc[ListenerGoroutine] = "RecordRouter"
  /\ LET ndpKind == classifyICMPv6(Byte(buf, 0))
     IN /\ routers' = RunRouters(routers, buf, src, ndpKind, clock)
        /\ local' = [local EXCEPT ![ListenerGoroutine] =
                       [groups |-> IF ndpKind \in {"mld_report", "mld_done"} THEN parseMLDGroups(buf) ELSE <<>>]]
  /\ lastOp' = "RecordRouter"
  /\ rsnap' = <<>>
  /\ Goto(ListenerGoroutine, "RecordMLDMembership")
  /\ UNCHANGED <<storeVars, snap, lastAt, removed, reads, events, prev, firstEver>>
  /\ UNCHANGED <<mu, call, committed, calls, buf, src, out>>

\* one turn of: for _, group := range ... { RecordMLDMembership(srcIP, group) },
\* or the end of the loop and of the turn of Run
RunRecordMLDMembership ==
  /\ pc[ListenerGoroutine] = "RecordMLDMembership"
  /\ LET groups == local[ListenerGoroutine].groups
     IN IF groups = <<>>
        THEN /\ local' = [local EXCEPT ![ListenerGoroutine] = NoLocal]
             /\ Goto(ListenerGoroutine, "idle")
             /\ UNCHANGED <<peers, lastOp>>
        ELSE /\ peers' = RecordMLDMembershipBody(peers, src, Head(groups), clock)
             /\ local' = [local EXCEPT ![ListenerGoroutine] = [groups |-> Tail(groups)]]
             /\ lastOp' = "RecordMLDMembership"
             /\ UNCHANGED pc
  /\ UNCHANGED <<clock, window, snap, lastAt, removed, reads, events, prev, firstEver>>
  /\ UNCHANGED <<mu, call, committed, calls, listenerVars>>

NextPipeline ==
  \/ Tick
  \/ \E srcIP \in Addrs, b \in Packets : RunRecordMessage(srcIP, b)
  \/ RunRecordMAC
  \/ RunRecordRouter
  \/ RunRecordMLDMembership
  \/ Prune

SpecPipeline == Init /\ [][NextPipeline]_vars

\* ------------------------------------------------- vocabulary of the claims
\* the clock reading below which, and at which, a timestamp is outside the window
WindowStart == clock - window

InWindow(timestamps) == {j \in 1..Len(timestamps) : timestamps[j] > WindowStart}

\* the message timestamps of a PeerStats that are inside the window, as (kind, index) pairs
InWindowMessages(peer) ==
  {kj \in (DOMAIN peer.Messages) \X (1..MaxEvents + 1) :
     kj[2] \in InWindow(peer.Messages[kj[1]])}

\* timestamps with those at or before the window start left out, order kept
WithinWindow(timestamps) == SelectSeq(timestamps, LAMBDA ts : ts > WindowStart)

MessagesOfKind(ps, a, k) ==
  IF a \in DOMAIN ps /\ k \in DOMAIN ps[a].Messages THEN ps[a].Messages[k] ELSE <<>>

SnapAddresses(s) == {s[i].Address : i \in 1..Len(s)}

RecordedFor(ip) ==
  \/ \E ndpKind \in Kinds : RecordMessage(ip, ndpKind)
  \/ \E group \in GroupAddrs : RecordMLDMembership(ip, group)
  \/ \E mac \in MACs : RecordMAC(ip, mac)

\* the place of a group address in the ascending order of address text
GroupIndex(g) == CHOOSE i \in 1..Len(GroupOrder) : GroupOrder[i] = g

GroupsOfPeer(ps, a) == IF a \in DOMAIN ps THEN ps[a].Groups ELSE EmptyMap

\* a goroutine is between Lock and Unlock
InWriteSection(p) ==
  pc[p] \in {"cutoff", "range", "pruneMessages", "pruneGroups",
             "getOrCreatePeer", "LastSeen", "Messages", "Groups", "MAC", "Unlock"}

\* a goroutine is between RLock and RUnlock
InReadSection(p) == pc[p] \in {"summaries", "RUnlock"}

\* ----------------------------------------------------------------------- C1
\* C1: under every interleaving of Record*, Prune and GetStats calls, the list
\* a GetStats call has computed is a window-filtered, sorted projection of the
\* store as a completed write left it, never of a store in the middle of a write.
SnapshotIsAtomicView ==
  \A p \in Procs :
    pc[p] = "RUnlock" => local[p].result \in GetStatsResults(committed, local[p].now, window)

\* a GetStats call has computed a list with a peer in it while the other
\* goroutine is inside Lock, waiting for it to leave
SnapshotDuringWrite ==
  \E p, q \in Procs :
    /\ pc[p] = "RUnlock"
    /\ local[p].result # <<>>
    /\ pc[q] = "LockWait"
    /\ call[q].op \in {"Prune", "RecordMessage"}

\* ----------------------------------------------------------------------- C2
\* C2: while a goroutine is between Lock and Unlock (RecordMessage,
\* RecordMLDMembership, RecordMAC, Prune), no other goroutine is between Lock
\* and Unlock or between RLock and RUnlock; GetStats calls can be between RLock
\* and RUnlock together.
WritersAreAlone ==
  \A p, q \in Procs :
    (p # q /\ InWriteSection(p)) => (~InWriteSection(q) /\ ~InReadSection(q))

\* every goroutine is between RLock and RUnlock at once
ReadersTogether == \A p \in Procs : InReadSection(p) /\ call[p].op = "GetStats"

\* ----------------------------------------------------------------------- C3
\* C3: in every reachable state every PeerStats has FirstSeen <= LastSeen,
\* peers created by RecordMAC or RecordMLDMembership included.
FirstSeenBeforeLastSeen == \A a \in DOMAIN peers : peers[a].FirstSeen <= peers[a].LastSeen

\* ----------------------------------------------------------------------- C4
\* C4: Prune removes a peer exactly when none of its message timestamps is
\* after now - window, whatever its groups and MAC; an address that is absent
\* comes back only through a Record* call for it, as a fresh PeerStats that
\* holds nothing of the removed one, and GetStats lists no absent address.
PruneRemovesExactlySilentPeers ==
  [][/\ Prune =>
          \A a \in DOMAIN peers : (a \in DOMAIN peers') <=> (InWindowMessages(peers[a]) # {})
     /\ \A a \in Addrs :
          (a \notin DOMAIN peers /\ a \in DOMAIN peers') =>
             /\ RecordedFor(a)
             /\ peers'[a].FirstSeen = clock
             /\ \A mac \in MACs : peers'[a].MAC = mac => RecordMAC(a, mac)
             /\ \A g \in DOMAIN peers'[a].Groups : RecordMLDMembership(a, g)
     /\ GetStats => SnapAddresses(snap') \subseteq DOMAIN peers]_vars

\* a Prune has just removed a peer that had a group reported inside the window,
\* all of its messages being outside the window
PrunedPeerWithLiveGroup ==
  /\ lastOp = "Prune"
  /\ \E a \in DOMAIN removed :
       /\ a \notin DOMAIN peers
       /\ \E g \in DOMAIN removed[a].Groups : removed[a].Groups[g] > WindowStart
       /\ DOMAIN removed[a].Messages # {}

StalePeersTimeOut ==
  [][/\ \A ip \in Addrs, ndpKind \in Kinds : RecordMessage(ip, ndpKind) => peers'[ip].LastSeen = clock
     /\ \A a \in (DOMAIN peers) \cap (DOMAIN peers') :
          peers'[a].LastSeen # peers[a].LastSeen => \E ndpKind \in Kinds : RecordMessage(a, ndpKind)
     /\ Prune => \A a \in DOMAIN peers : clock > peers[a].LastSeen + window => a \notin DOMAIN peers'
     /\ \A a \in Addrs : (a \notin DOMAIN peers /\ a \in DOMAIN peers') => RecordedFor(a)
     /\ GetStats => \A a \in Addrs : a \notin DOMAIN peers => a \notin SnapAddresses(snap')]_vars

\* a Prune later than LastSeen + window has just removed a peer that had messages
StalePeerGone ==
  /\ lastOp = "Prune"
  /\ \E a \in DOMAIN removed :
       /\ DOMAIN removed[a].Messages # {}
       /\ removed[a].LastSeen > ZeroTime
       /\ lastAt > removed[a].LastSeen + window
       /\ a \notin DOMAIN peers

\* ----------------------------------------------------------------------- C7
\* C7: in every summary GetStats returns at clock reading now, Counts[kind] is
\* the number of timestamps of messages[kind] strictly after now - window (one
\* equal to the cutoff is not counted) and Total is the sum of the counts.
CountsAreWindowed ==
  [][GetStats =>
       \A i \in 1..Len(snap') :
         LET a == snap'[i].Address
         IN /\ a \in DOMAIN peers
            /\ DOMAIN snap'[i].Counts = DOMAIN peers[a].Messages
            /\ \A k \in DOMAIN peers[a].Messages :
                 snap'[i].Counts[k] = Cardinality(InWindow(peers[a].Messages[k]))
            /\ snap'[i].Total = Cardinality(InWindowMessages(peers[a]))]_vars

\* GetStats has just summarised a peer that holds a timestamp equal to the
\* cutoff next to one inside the window
SnapshotAtCutoff ==
  /\ lastOp = "GetStats"
  /\ lastAt = clock
  /\ \E i \in 1..Len(snap) :
       LET peer == peers[snap[i].Address]
       IN /\ snap[i].Total > 0
          /\ \E k \in DOMAIN peer.Messages : \E j \in 1..Len(peer.Messages[k]) :
               peer.Messages[k][j] = WindowStart

\* ----------------------------------------------------------------------- C8
\* C8: the list GetStats returns is in non-increasing order of Total.
SnapshotSortedByTotal == \A i \in 1..Len(snap) - 1 : snap[i].Total >= snap[i + 1].Total

\* a returned list of two peers with different totals
SnapshotWithDistinctTotals ==
  /\ lastOp = "GetStats"
  /\ Len(snap) = 2
  /\ snap[1].Total > snap[2].Total

\* ----------------------------------------------------------------------- C9
\* C9, as claimed: a GetStats that follows a GetStats with no write in between
\* returns the same list, in the same order.
RepeatedSnapshotIdentical == [][(GetStats /\ reads >= 1) => snap' = snap]_vars

\* C9, amended: a GetStats that follows a GetStats with no write in between, at
\* the same clock reading, returns the same summaries with the same sequence of
\* totals; summaries with equal totals can change places.
RepeatedSnapshotSameUpToTies ==
  [][(GetStats /\ reads >= 1 /\ lastAt = clock) =>
       /\ Len(snap') = Len(snap)
       /\ {snap'[i] : i \in 1..Len(snap')} = {snap[i] : i \in 1..Len(snap)}
       /\ \A i \in 1..Len(snap) : snap'[i].Total = snap[i].Total]_vars

\* two GetStats calls in a row at one clock reading, over two peers with
\* different totals
SnapshotRepeated ==
  /\ reads = 2
  /\ lastAt = clock
  /\ Len(snap) = 2
  /\ snap[1].Total # snap[2].Total

\* ---------------------------------------------------------------------- C10
\* C10: GetStats returns one summary for each address of the peer table, none
\* left out and none twice, whatever its total; RecordMAC for an address that
\* is not in the table creates a peer with that MAC and no message, which the
\* next GetStats lists with that MAC and Total 0.
SnapshotListsEveryPeer ==
  [][/\ GetStats =>
          /\ SnapAddresses(snap') = DOMAIN peers
          /\ Len(snap') = Cardinality(DOMAIN peers)
          /\ \A i \in 1..Len(snap') :
               /\ snap'[i].MAC = peers[snap'[i].Address].MAC
               /\ (DOMAIN peers[snap'[i].Address].Messages = {}) => snap'[i].Total = 0
     /\ \A ip \in Addrs, mac \in MACs :
          (RecordMAC(ip, mac) /\ ip \notin DOMAIN peers) =>
             /\ ip \in DOMAIN peers'
             /\ peers'[ip].MAC = mac
             /\ DOMAIN peers'[ip].Messages = {}]_vars

\* GetStats has just listed a peer that RecordMAC created and that never had a
\* message, next to a peer with messages
SnapshotWithMACOnlyPeer ==
  /\ lastOp = "GetStats"
  /\ \E i, j \in 1..Len(snap) :
       /\ snap[i].Total = 0
       /\ snap[i].MAC \in MACs
       /\ snap[i].LastSeen = ZeroTime
       /\ snap[i].Groups = <<>>
       /\ snap[j].Total > 0

\* ---------------------------------------------------------------------- C13
\* C13: while an address stays in the peer table its LastSeen never goes back,
\* under every interleaving of RecordMessage calls for it that read the clock
\* before they take the lock.
LastSeenNeverDecreases ==
  [][\A a \in (DOMAIN peers) \cap (DOMAIN peers') : peers'[a].LastSeen >= peers[a].LastSeen]_vars

\* ---------------------------------------------------------------------- C15
\* C15: in every reachable state every timestamp in a peer's Messages lies
\* between the FirstSeen of that PeerStats and the clock, under every
\* interleaving of RecordMessage and Prune calls.
MessagesBetweenCreationAndNow ==
  \A a \in DOMAIN peers : \A k \in DOMAIN peers[a].Messages : \A j \in 1..Len(peers[a].Messages[k]) :
    /\ peers[a].FirstSeen <= peers[a].Messages[k][j]
    /\ peers[a].Messages[k][j] <= clock

\* ---------------------------------------------------------------------- C11
\* C11: the MAC GetStats reports for an address is the argument of the last
\* RecordMAC call for it since its PeerStats was created: RecordMAC replaces
\* the value, no other call changes it, a new PeerStats has none, and a
\* summary carries the stored value.
MACIsLastRecorded ==
  [][/\ \A ip \in Addrs, mac \in MACs : RecordMAC(ip, mac) => peers'[ip].MAC = mac
     /\ \A a \in DOMAIN peers' :
          (~ \E mac \in MACs : RecordMAC(a, mac)) =>
             peers'[a].MAC = IF a \in DOMAIN peers THEN peers[a].MAC ELSE NoMAC
     /\ GetStats => \A i \in 1..Len(snap') : snap'[i].MAC = peers[snap'[i].Address].MAC]_vars

\* GetStats has listed a peer whose MAC the last write replaced by another one
SnapshotAfterMACReplaced ==
  /\ lastOp = "GetStats"
  /\ \E i \in 1..Len(snap) :
       LET a == snap[i].Address
       IN /\ a \in DOMAIN prev
          /\ prev[a].MAC \in MACs
          /\ snap[i].MAC \in MACs
          /\ snap[i].MAC # prev[a].MAC

\* ---------------------------------------------------------------------- C12
\* C12: the Groups list of every summary holds exactly the peer's groups whose
\* timestamp is after now - window, each once, in ascending order of address
\* text; RecordMLDMembership sets the timestamp of its group to now, adds the
\* group if it is new, and leaves the other groups alone.
GroupsAreWindowedAndSorted ==
  [][/\ GetStats =>
          \A i \in 1..Len(snap') :
            LET groups == peers[snap'[i].Address].Groups
                listed == snap'[i].Groups
                live == {g \in DOMAIN groups : groups[g] > WindowStart}
            IN /\ {listed[j] : j \in 1..Len(listed)} = live
               /\ Len(listed) = Cardinality(live)
               /\ \A j \in 1..Len(listed) - 1 : GroupIndex(listed[j]) < GroupIndex(listed[j + 1])
     /\ \A ip \in Addrs, group \in GroupAddrs :
          RecordMLDMembership(ip, group) =>
             LET old == GroupsOfPeer(peers, ip)
             IN /\ DOMAIN peers'[ip].Groups = (DOMAIN old) \cup {group}
                /\ peers'[ip].Groups[group] = clock
                /\ \A g \in (DOMAIN old) \ {group} : peers'[ip].Groups[g] = old[g]]_vars

\* GetStats has listed two groups of a peer, the one that was reported last
\* standing first
SnapshotWithTwoGroups ==
  /\ lastOp = "GetStats"
  /\ \E i \in 1..Len(snap) :
       LET a == snap[i].Address
       IN /\ Len(snap[i].Groups) = 2
          /\ a \in DOMAIN prev
          /\ DOMAIN prev[a].Groups = {snap[i].Groups[2]}

\* ---------------------------------------------------------------------- C14
\* C14, as claimed: the FirstSeen of every summary is the time of the first
\* Record* call ever made for its address, also when the peer was removed by
\* Prune and recorded again.
FirstSeenIsFirstEver ==
  lastOp = "GetStats" => \A i \in 1..Len(snap) : snap[i].FirstSeen = firstEver[snap[i].Address]

\* C14, amended: the FirstSeen of every summary is the time of the Record* call
\* that created the PeerStats the address has now; it does not change while
\* the address stays in the table, and an address that Prune removed starts
\* again with the time of the next Record* call for it.
FirstSeenIsCreationTime ==
  [][/\ \A a \in DOMAIN peers' :
          peers'[a].FirstSeen = IF a \in DOMAIN peers THEN peers[a].FirstSeen ELSE clock
     /\ \A a \in (DOMAIN peers') \ (DOMAIN peers) : RecordedFor(a)
     /\ GetStats => \A i \in 1..Len(snap') : snap'[i].FirstSeen = peers[snap'[i].Address].FirstSeen]_vars

\* GetStats has listed a peer that was recorded, removed by Prune and recorded
\* again at a later clock reading
SnapshotOfReturnedPeer ==
  /\ lastOp = "GetStats"
  /\ \E i \in 1..Len(snap) :
       /\ firstEver[snap[i].Address] > ZeroTime
       /\ firstEver[snap[i].Address] < snap[i].FirstSeen

\* ---------------------------------------------------------------------- C16
\* C16: between store calls no PeerStats has a kind in Messages with an empty
\* sequence of timestamps: RecordMessage leaves a sequence with its timestamp
\* in it and Prune deletes the kind whose timestamps are all dropped.
NoEmptyKind ==
  \A a \in DOMAIN peers : \A k \in DOMAIN peers[a].Messages : peers[a].Messages[k] # <<>>

\* a Prune has just dropped every timestamp of one kind of a peer that stays in
\* the table with another kind
PruneDroppedKind ==
  /\ lastOp = "Prune"
  /\ \E a \in (DOMAIN prev) \cap (DOMAIN peers) :
       /\ DOMAIN peers[a].Messages # {}
       /\ DOMAIN peers[a].Messages # DOMAIN prev[a].Messages

\* ---------------------------------------------------------------------- C17
\* C17: whatever packets the listener processes, no PeerStats has the
\* unspecified address "::" among the keys of Groups: the MLDv1 and MLDv2
\* extractors leave it out of what they return.
NoUnspecifiedGroup == \A a \in DOMAIN peers : "::" \notin DOMAIN peers[a].Groups

\* the listener has just processed an MLDv2 report with a record for "::" and a
\* record for ff02::1:3, and recorded the second group only
ReportWithUnspecifiedProcessed ==
  /\ lastOp = "Run"
  /\ buf = buildMLDv2Report(<<IPv6zero, ParseIP("ff02::1:3")>>)
  /\ src \in DOMAIN peers
  /\ DOMAIN peers[src].Groups = {"ff02::1:3"}

\* ---------------------------------------------------------------------- C18
\* C18: Prune leaves the router table as it is; a RouterInfo stays in the table,
\* unchanged, until the listener records a Router Advertisement from its
\* address, whatever time passes; GetRouters returns every RouterInfo of the
\* table, each once.
RoutersOutlivePrune ==
  [][/\ Prune => routers' = routers
     /\ \A a \in DOMAIN routers :
          /\ a \in DOMAIN routers'
          /\ routers'[a] # routers[a] => \E b \in Packets : Run(a, b) /\ Byte(b, 0) = 134
     /\ GetRouters =>
          /\ Len(rsnap') = Cardinality(DOMAIN routers)
          /\ {rsnap'[i] : i \in 1..Len(rsnap')} = {routers[a] : a \in DOMAIN routers}]_vars

\* GetRouters has returned a router that was last seen before the window and
\* whose PeerStats a Prune has removed
RouterListedAfterPrune ==
  /\ lastOp = "GetRouters"
  /\ \E i \in 1..Len(rsnap) :
       /\ rsnap[i].Address \notin DOMAIN peers
       /\ clock > rsnap[i].LastSeen + window

\* ---------------------------------------------------------------------- C19
\* C19: when the listener processes a Router Advertisement, the router table
\* holds for its source address the record decoded from this packet alone
\* (prefixes, routes, RDNSS, MTU, flags), with nothing of an earlier record for
\* the address, and the records of the other addresses are unchanged.
RecordRouterReplaces ==
  [][\A srcIP \in Addrs, b \in Packets :
       (Run(srcIP, b) /\ Byte(b, 0) = 134) =>
          /\ DOMAIN routers' = (DOMAIN routers) \cup {srcIP}
          /\ routers'[srcIP] = parseRA(b, srcIP, parseLinkLayerAddr(b, 1), 0, "", clock)
          /\ \A a \in (DOMAIN routers) \ {srcIP} : routers'[a] = routers[a]
          /\ b = RAOnePrefix =>
               /\ Len(routers'[srcIP].Prefixes) = 1
               /\ routers'[srcIP].Prefixes[1].Prefix = <<"2001:db8:1::", 48>>
               /\ routers'[srcIP].Routes = <<>>
               /\ routers'[srcIP].RDNSS = <<>>
               /\ routers'[srcIP].MTU = 0
               /\ ~routers'[srcIP].Managed
               /\ ~routers'[srcIP].Other]_vars

\* the listener has just processed the advertisement with one prefix from an
\* address whose earlier advertisement had every option and the MAC
SecondAdvertisementRecorded ==
  /\ lastOp = "Run"
  /\ buf = RAOnePrefix
  /\ src \in DOMAIN prev
  /\ prev[src].MAC = "aa:bb:cc:dd:ee:01"
  /\ "router_advertisement" \in DOMAIN prev[src].Messages
  /\ src \in DOMAIN routers
  /\ routers[src].LastSeen = clock
  /\ routers[src].MTU = 0

\* ---------------------------------------------------------------------- C20
\* C20: classifyICMPv6 gives every type byte 0..255 a result: 133, 134, 135,
\* 136, 137, 157, 158, 130 and 132 their own kind, 131 and 143 mld_report, and
\* every other value the empty string.
KindOfType ==
  (133 :> "router_solicitation") @@ (134 :> "router_advertisement")
    @@ (135 :> "neighbor_solicitation") @@ (136 :> "neighbor_advertisement")
    @@ (137 :> "redirect") @@ (157 :> "duplicate_address_request")
    @@ (158 :> "duplicate_address_confirmation") @@ (130 :> "mld_query")
    @@ (132 :> "mld_done") @@ (131 :> "mld_report") @@ (143 :> "mld_report")

ClassifyIsTotal ==
  out.fn = "classifyICMPv6" =>
    out.ndpKind = IF Byte(buf, 0) \in DOMAIN KindOfType THEN KindOfType[Byte(buf, 0)] ELSE ""

\* the MLDv2 report type has been classified
ClassifiedMLDv2Report ==
  /\ out.fn = "classifyICMPv6"
  /\ Byte(buf, 0) = 143
  /\ out.ndpKind = "mld_report"

\* C21: the options of a message of type 133 start at byte 8, of type 134 at
\* byte 16, of types 135 and 136 at byte 24, of type 137 at byte 40, and every
\* other type byte from 0 to 255 (the MLD types 130, 131, 132 and 143 among
\* them) has no options region: ndpOptionsOffset answers -1.
OptionsOffsetTable ==
  out.fn = "ndpOptionsOffset" =>
    /\ Byte(buf, 0) \in 0..255
    /\ Byte(buf, 0) = 133 => out.offset = 8
    /\ Byte(buf, 0) = 134 => out.offset = 16
    /\ Byte(buf, 0) \in {135, 136} => out.offset = 24
    /\ Byte(buf, 0) = 137 => out.offset = 40
    /\ Byte(buf, 0) \notin 133..137 => out.offset = -1

\* the offset of a Redirect has been computed
RedirectOffsetComputed == out.fn = "ndpOptionsOffset" /\ Byte(buf, 0) = 137 /\ out.offset = 40

\* the byte at which the options of a message of type t start, by the table
\* of the option walker
OptionsStart(t) ==
  CASE t = 133 -> 8
    [] t = 134 -> 16
    [] t \in {135, 136} -> 24
    [] t = 137 -> 40

\* the offsets of the options of b in chain order from offset on: each option
\* is as long as it declares, and the chain ends before an option of length 0
\* or one that does not end inside b
RECURSIVE OptionChain(_, _)
OptionChain(b, offset) ==
  IF offset + 2 > Len(b) THEN <<>>
  ELSE IF Byte(b, offset + 1) = 0 \/ offset + Byte(b, offset + 1) * 8 > Len(b) THEN <<>>
  ELSE <<offset>> \o OptionChain(b, offset + Byte(b, offset + 1) * 8)

\* the options of the message b, none when its type carries no options or b
\* is shorter than its fixed part
OptionsOf(b) ==
  IF Len(b) >= 1 /\ Byte(b, 0) \in 133..137 /\ Len(b) >= OptionsStart(Byte(b, 0))
  THEN OptionChain(b, OptionsStart(Byte(b, 0)))
  ELSE <<>>

\* C22: parseLinkLayerAddr(buffer, wanted) returns the 6 bytes at offset 2 to
\* 8 of the first option of the chain whose type is the wanted one, as the
\* text of a hardware address, having passed over every option before it by
\* its declared length; it returns nothing when the buffer is shorter than the
\* options offset, the type carries no options, or the chain has no option of
\* the wanted type.
LinkLayerIsFirstWantedOption ==
  out.fn = "parseLinkLayerAddr" =>
    LET chain == OptionsOf(buf)
        wanted == {i \in 1..Len(chain) : Byte(buf, chain[i]) = out.optionType}
    IN IF wanted = {}
       THEN out.mac = ""
       ELSE LET first == chain[CHOOSE i \in wanted : \A j \in wanted : i <= j]
            IN out.mac = HardwareAddrString(Slice(buf, first + 2, first + 8))

\* the address of a Router Advertisement was found behind a Prefix Information option
LinkLayerFoundBehindPrefix ==
  /\ out.fn = "parseLinkLayerAddr"
  /\ Len(buf) >= 56
  /\ Byte(buf, 0) = 134
  /\ Byte(buf, 16) = 3
  /\ Byte(buf, 48) = 1
  /\ out.optionType = 1
  /\ out.mac = "aa:bb:cc:dd:ee:01"

\* C23: for a buffer of any length and content, the empty one included,
\* parseLinkLayerAddr, parseRA with its option parsers and parseMLDGroups read
\* no index at or beyond the length of the slice they read from, so no decoder
\* panics: each returns a text, a record, a list or nothing.
DecodersReadInsideBuffer ==
  out.fn \in {"parseLinkLayerAddr", "parseRA", "parseMLDGroups"} =>
    /\ InBounds(out.reads)
    /\ \A a \in out.reads : a[2] <= Len(buf)
    /\ out.fn = "parseLinkLayerAddr" => out.mac \in {"", "?"} \cup {e[2] : e \in MACTexts}
    /\ out.fn = "parseRA" => out.ri = NilRouterInfo \/ out.ri.Address = "fe80::1"
    /\ out.fn = "parseMLDGroups" => Len(out.groups) <= MaxRecords

\* a Neighbor Solicitation cut inside its Source Link-Layer Address option
\* has been decoded
OptionCutShortDecoded ==
  /\ out.fn = "parseLinkLayerAddr"
  /\ Len(buf) = 30
  /\ Byte(buf, 0) = 135
  /\ Byte(buf, 24) = 1
  /\ out.optionType = 1
  /\ out.reads = {<<0, 30>>, <<24, 30>>, <<25, 30>>}
  /\ out.mac = ""

\* C24: parseRA returns nothing exactly when the buffer is shorter than 16
\* bytes, and a record for every buffer of 16 bytes or more; for the 16 bytes
\* that are zero behind the type byte 134, with the control hop limit 0, the
\* record has hop limit 0, managed and other false, lifetime 0 and no
\* prefixes, routes or RDNSS servers.
ParseRANeedsSixteenBytes ==
  out.fn = "parseRA" =>
    /\ out.ri = NilRouterInfo <=> Len(buf) < 16
    /\ (buf = <<134>> \o Zeros(15) /\ out.hopLimit = 0) =>
         /\ out.ri.HopLimit = 0
         /\ ~out.ri.Managed
         /\ ~out.ri.Other
         /\ out.ri.Lifetime = 0
         /\ out.ri.Prefixes = <<>>
         /\ out.ri.Routes = <<>>
         /\ out.ri.RDNSS = <<>>

\* the Router Advertisement of 16 bytes has been decoded without a control hop limit
BareAdvertisementDecoded ==
  /\ out.fn = "parseRA"
  /\ buf = <<134>> \o Zeros(15)
  /\ out.hopLimit = 0
  /\ out.ri # NilRouterInfo

\* the byte behind the last option of the chain of b that starts at offset
ChainEnd(b, offset) ==
  LET chain == OptionChain(b, offset)
  IN IF chain = <<>> THEN offset
     ELSE chain[Len(chain)] + Byte(b, chain[Len(chain)] + 1) * 8

\* the chain of the Router Advertisement b ends at an option of length 0 or
\* one that runs past the end of b
StoppedAtOption(b) == Len(b) >= 16 /\ ChainEnd(b, 16) + 2 <= Len(b)

\* the options of the chain of b that have type t and at least minLen bytes
OptionsOfType(b, t, minLen) ==
  {i \in 1..Len(OptionChain(b, 16)) :
     /\ Byte(b, OptionChain(b, 16)[i]) = t
     /\ Byte(b, OptionChain(b, 16)[i] + 1) * 8 >= minLen}

\* C25: when the option chain of a Router Advertisement reaches an option
\* whose length field is 0 or whose declared length runs past the end of the
\* buffer, parseRA stops there: the record is the one of the buffer cut at
\* that option, so nothing behind it contributes, and it holds what the
\* options before it gave: a prefix for each Prefix Information option, a
\* route for each Route Information option, the servers of each RDNSS option
\* and the MTU of the last MTU option.
WalkStopsAtBadOption ==
  (out.fn = "parseRA" /\ StoppedAtOption(buf)) =>
    LET chain == OptionChain(buf, 16)
        mtus == OptionsOfType(buf, 5, 8)
    IN /\ out.ri = parseRA(Slice(buf, 0, ChainEnd(buf, 16)), "fe80::1", parseLinkLayerAddr(buf, 1),
                           out.hopLimit, "", clock)
       /\ Len(out.ri.Prefixes) = Cardinality(OptionsOfType(buf, 3, 32))
       /\ Len(out.ri.Routes) = Cardinality(OptionsOfType(buf, 24, 8))
       /\ Len(out.ri.RDNSS) >= Cardinality(OptionsOfType(buf, 25, 24))
       /\ out.ri.MTU = IF mtus = {} THEN 0
                       ELSE Uint32(buf, chain[CHOOSE i \in mtus : \A j \in mtus : i >= j] + 4)

\* an advertisement whose third option has length 0 has been decoded: the
\* prefix and the MTU before it are in the record, the route behind it is not
StoppedAdvertisementDecoded ==
  /\ out.fn = "parseRA"
  /\ buf = RAStoppedMidway
  /\ Len(out.ri.Prefixes) = 1
  /\ out.ri.Prefixes[1].Prefix = PrefixText(ParseIP("2001:db8::"), 64)
  /\ out.ri.MTU = 1500
  /\ out.ri.RDNSS = <<>>
  /\ out.ri.Routes = <<>>

\* the addresses that are unspecified: the one of IPv6 and the one of IPv4 in
\* its 16-byte form
UnspecifiedAddresses == {IPv6zero, IPv4zeroMapped}

IsMLDv2Report(b) == Len(b) >= 8 /\ Byte(b, 0) = 143

\* the records of the report b as they lie on the wire, from record i at
\* offset on: a record ends 20 + sources*16 + auxWords*4 bytes behind its
\* start, and the next one starts there; the list ends with the declared count
\* or at a record whose first four bytes are not all in b
RECURSIVE WireRecords(_, _, _)
WireRecords(b, i, offset) ==
  IF i >= Uint16(b, 6) \/ offset + 4 > Len(b) THEN <<>>
  ELSE LET end == offset + 20 + Uint16(b, offset + 2) * 16 + Byte(b, offset + 1) * 4
       IN <<[offset |-> offset, end |-> end]>> \o WireRecords(b, i + 1, end)

\* every declared record of the report b lies inside b with its full extent
AllRecordsFit(b) ==
  /\ Len(WireRecords(b, 0, 8)) = Uint16(b, 6)
  /\ \A i \in 1..Len(WireRecords(b, 0, 8)) : WireRecords(b, 0, 8)[i].end <= Len(b)

\* the texts of the groups of the records rs of b, in order, without the
\* unspecified ones
RECURSIVE GroupsOfRecords(_, _)
GroupsOfRecords(b, rs) ==
  IF rs = <<>> THEN <<>>
  ELSE LET group == Slice(b, Head(rs).offset + 4, Head(rs).offset + 20)
       IN (IF group \in UnspecifiedAddresses THEN <<>> ELSE <<IPString(group)>>)
            \o GroupsOfRecords(b, Tail(rs))

\* C26, as claimed: for an MLDv2 report whose declared records do not all fit
\* in the buffer, parseMLDGroups returns the groups of the complete records
\* only, the records whose full extent of 20 + sources*16 + auxWords*4 bytes
\* lies inside the buffer, and the empty list when there is no room for even
\* one record.
OnlyCompleteRecords ==
  (out.fn = "parseMLDGroups" /\ IsMLDv2Report(buf) /\ ~AllRecordsFit(buf)) =>
    LET complete(r) == r.end <= Len(buf)
    IN out.groups = GroupsOfRecords(buf, SelectSeq(WireRecords(buf, 0, 8), complete))

\* C26, amended: for an MLDv2 report whose declared records do not all fit in
\* the buffer, parseMLDGroups returns the groups of the records whose fixed
\* part of 20 bytes, the record header and the group address, lies inside the
\* buffer, in wire order and without the unspecified ones: the group of a
\* record whose source addresses or auxiliary data are cut off is returned;
\* the list is empty when there is no room for the fixed part of even one.
OnlyRecordsWithFixedPart ==
  (out.fn = "parseMLDGroups" /\ IsMLDv2Report(buf) /\ ~AllRecordsFit(buf)) =>
    LET fixedPart(r) == r.offset + 20 <= Len(buf)
    IN /\ out.groups = GroupsOfRecords(buf, SelectSeq(WireRecords(buf, 0, 8), fixedPart))
       /\ Len(buf) < 28 => out.groups = <<>>

\* a report of one record cut inside the source address of the record has
\* been decoded, and the group of the record returned
RecordCutInSourcesDecoded ==
  /\ out.fn = "parseMLDGroups"
  /\ buf = SubSeq(buildMLDv2ReportOf(1, <<MLDv2Record(ParseIP("ff02::fb"), 1, 1)>>), 1, 30)
  /\ out.groups = <<"ff02::fb">>

\* the group address of a record as MLDv2Record lays it out
GroupOfRecord(record) == SubSeq(record, 5, 20)

\* C27: for an MLDv2 report whose declared records all fit in the buffer,
\* parseMLDGroups returns the group addresses of the records in wire order,
\* without the unspecified ones, so at most as many as records are declared;
\* record k+1 is read 20 + sources*16 + auxWords*4 bytes behind the start of
\* record k.
GroupsInWireOrder ==
  (out.fn = "parseMLDGroups" /\ IsMLDv2Report(buf) /\ AllRecordsFit(buf)) =>
    /\ out.groups = GroupsOfRecords(buf, WireRecords(buf, 0, 8))
    /\ Len(out.groups) <= Uint16(buf, 6)
    /\ \A rs \in Chains(MLDv2RecordSet, MaxRecords) :
         buf = buildMLDv2ReportOf(Len(rs), rs) =>
           LET specified(record) == GroupOfRecord(record) \notin UnspecifiedAddresses
               kept == SelectSeq(rs, specified)
           IN out.groups = [i \in 1..Len(kept) |-> IPString(GroupOfRecord(kept[i]))]

\* a report of two records, the first with a source address and a word of
\* auxiliary data, has been decoded
ReportWithSourcesDecoded ==
  /\ out.fn = "parseMLDGroups"
  /\ buf = buildMLDv2ReportOf(2, <<MLDv2Record(ParseIP("ff02::fb"), 1, 1),
                                  MLDv2Record(ParseIP("ff02::1:3"), 0, 0)>>)
  /\ out.groups = <<"ff02::fb", "ff02::1:3">>

\* C28: for a buffer whose byte 0 is 131 or 132, parseMLDGroups returns the
\* one group at bytes 8 to 24 when the buffer has at least 24 bytes and the
\* group is not unspecified, and nothing otherwise; for a buffer of fewer than
\* 4 bytes, or with a byte 0 that is none of 131, 132 and 143, it returns
\* nothing.
MLDv1GroupIsBytes8To24 ==
  out.fn = "parseMLDGroups" =>
    /\ (Len(buf) >= 1 /\ Byte(buf, 0) \in {131, 132}) =>
         out.groups = IF Len(buf) >= 24 /\ Slice(buf, 8, 24) \notin UnspecifiedAddresses
                      THEN <<IPString(Slice(buf, 8, 24))>>
                      ELSE <<>>
    /\ (Len(buf) < 4 \/ Byte(buf, 0) \notin {131, 132, 143}) => out.groups = <<>>

\* the group of an MLDv1 Done has been extracted
DoneGroupExtracted ==
  /\ out.fn = "parseMLDGroups"
  /\ buf = buildMLDv1Done(ParseIP("ff02::1:3"))
  /\ out.groups = <<"ff02::1:3">>

\* the peer a has a message timestamp or a group that is outside the window
HasStaleData(ps, a) ==
  \/ \E k \in DOMAIN ps[a].Messages : \E j \in 1..Len(ps[a].Messages[k]) : ps[a].Messages[k][j] <= WindowStart
  \/ \E g \in DOMAIN ps[a].Groups : ps[a].Groups[g] <= WindowStart

\* C29: GetStats only reads: a call leaves the peer table, with the first
\* seen and last seen times, the messages, the groups and the MAC of every
\* peer, and the router table as they were, also when it passes over
\* timestamps and groups that are outside the window.
GetStatsIsReadOnly == [][GetStats => (peers' = peers /\ routers' = routers)]_vars

\* a snapshot was taken of a table with data outside the window, and the
\* data is still in the table
SnapshotOverStaleData ==
  /\ lastOp = "GetStats"
  /\ \E a \in DOMAIN peers : HasStaleData(peers, a)

\* C30: while the record of a peer exists, no operation changes its first
\* seen time: RecordMessage, RecordMLDMembership and RecordMAC set it only for
\* the record they create, to the time of the call, and Prune leaves it as it
\* is in every record it keeps.
FirstSeenIsNeverRewritten ==
  [][/\ \A a \in DOMAIN peers \cap DOMAIN peers' : peers'[a].FirstSeen = peers[a].FirstSeen
     /\ \A a \in DOMAIN peers' \ DOMAIN peers :
          /\ peers'[a].FirstSeen = clock
          /\ lastOp' \in {"RecordMessage", "RecordMLDMembership", "RecordMAC"}]_vars

\* Prune dropped data of a peer that was first seen outside the window, and
\* kept the peer
PruneKeptOldPeer ==
  /\ lastOp = "Prune"
  /\ \E a \in DOMAIN prev \cap DOMAIN peers :
       /\ peers[a] # prev[a]
       /\ prev[a].FirstSeen <= WindowStart
       /\ peers[a].FirstSeen = prev[a].FirstSeen

\* the count a snapshot at the cutoff gives the peer a of ps for the kind k:
\* 0 for a kind the peer has no entry for
SnapshotCount(ps, a, k, cutoff) ==
  IF k \in DOMAIN CountsOf(ps[a], cutoff) THEN CountsOf(ps[a], cutoff)[k] ELSE 0

\* C31: Prune and GetStats use the same window boundary: Prune removes the
\* message timestamps and group entries that a snapshot at the same clock
\* reading does not count, and no others, so every peer that survives has the
\* same count for every kind, the same total and the same group list in a
\* snapshot before and after the Prune, and the peers removed are the ones
\* whose snapshot total was 0.
PruneAgreesWithSnapshot ==
  [][Prune =>
       /\ DOMAIN peers' = {a \in DOMAIN peers : Summarize(a, peers[a], WindowStart).Total > 0}
       /\ \A a \in DOMAIN peers' :
            /\ \A k \in Kinds :
                 /\ SnapshotCount(peers', a, k, WindowStart) = SnapshotCount(peers, a, k, WindowStart)
                 /\ Len(MessagesOfKind(peers', a, k)) = SnapshotCount(peers, a, k, WindowStart)
            /\ Summarize(a, peers'[a], WindowStart).Total = Summarize(a, peers[a], WindowStart).Total
            /\ Summarize(a, peers'[a], WindowStart).Groups = Summarize(a, peers[a], WindowStart).Groups
            /\ Len(Summarize(a, peers[a], WindowStart).Groups) = Cardinality(DOMAIN peers'[a].Groups)]_vars

\* Prune has dropped a message timestamp of a peer and kept the peer
PruneTrimmedSurvivor ==
  /\ lastOp = "Prune"
  /\ \E a \in DOMAIN prev \cap DOMAIN peers : \E k \in Kinds :
       /\ Len(MessagesOfKind(peers, a, k)) > 0
       /\ Len(MessagesOfKind(peers, a, k)) < Len(MessagesOfKind(prev, a, k))

\* C32: RecordMAC and RecordMLDMembership for an address that has a record
\* leave the first seen time, the last seen time and the messages of the
\* record as they are: RecordMAC changes the MAC and nothing else,
\* RecordMLDMembership changes the entry of the group and nothing else, so
\* neither moves the last seen time or adds to the messages that keep the
\* peer in the table.
MACAndGroupAreNoEvents ==
  [][\A ip \in DOMAIN peers :
       /\ \A mac \in MACs :
            RecordMAC(ip, mac) => peers' = [peers EXCEPT ![ip].MAC = mac]
       /\ \A group \in GroupAddrs :
            RecordMLDMembership(ip, group) =>
              /\ peers'[ip].FirstSeen = peers[ip].FirstSeen
              /\ peers'[ip].LastSeen = peers[ip].LastSeen
              /\ peers'[ip].Messages = peers[ip].Messages
              /\ peers'[ip].MAC = peers[ip].MAC
              /\ peers'[ip].Groups = [g \in DOMAIN peers[ip].Groups \cup {group} |->
                                        IF g = group THEN clock ELSE peers[ip].Groups[g]]
              /\ \A a \in Addrs \ {ip} : a \in DOMAIN peers' <=> a \in DOMAIN peers
              /\ \A a \in DOMAIN peers \ {ip} : peers'[a] = peers[a]]_vars

\* a group was recorded for a peer whose last message is older than the
\* report, and the last seen time of the peer is that of the message
ReportAfterLastMessage ==
  /\ lastOp = "RecordMLDMembership"
  /\ \E a \in DOMAIN prev \cap DOMAIN peers :
       /\ peers[a] # prev[a]
       /\ prev[a].Messages # EmptyMap
       /\ peers[a].LastSeen < clock
       /\ \E g \in DOMAIN peers[a].Groups : peers[a].Groups[g] = clock

\* the option i of the chain of the Router Advertisement b is one parseRA has
\* a case for: of type 3 with 32 bytes or more, of type 5 or 24, or of type 25
\* with 24 bytes or more
IsParsedOption(b, i) ==
  \/ i \in OptionsOfType(b, 3, 32)
  \/ i \in OptionsOfType(b, 5, 8)
  \/ i \in OptionsOfType(b, 24, 8)
  \/ i \in OptionsOfType(b, 25, 24)

\* the chain of b has an option parseRA has no case for before one it has a case for
HasSkippedOption(b) ==
  /\ Len(b) >= 16
  /\ \E i, j \in 1..Len(OptionChain(b, 16)) : i < j /\ ~IsParsedOption(b, i) /\ IsParsedOption(b, j)

\* C33: an option of a type parseRA does not know, or of a known type with
\* fewer bytes than the type needs (32 for type 3, 24 for type 25), is passed
\* over by its declared length and does not end the walk: the options behind
\* it are parsed into the record as if it were not there.
UnknownOptionIsSkipped ==
  out.fn = "parseRA" =>
    /\ HasSkippedOption(buf) =>
         /\ Len(out.ri.Prefixes) = Cardinality(OptionsOfType(buf, 3, 32))
         /\ Len(out.ri.Routes) = Cardinality(OptionsOfType(buf, 24, 8))
         /\ Len(out.ri.RDNSS) >= Cardinality(OptionsOfType(buf, 25, 24))
         /\ OptionsOfType(buf, 5, 8) # {} => out.ri.MTU # 0
    /\ \A skipped \in SkippedOptions, option \in RecognizedOptions :
         buf = buildRAFull(64, TRUE, FALSE, 1800, <<>>, skipped \o option) =>
           out.ri = parseRA(buildRAFull(64, TRUE, FALSE, 1800, <<>>, option), "fe80::1", "",
                            out.hopLimit, "", clock)

\* the prefix behind an RDNSS option of 16 bytes has been parsed
PrefixBehindShortRDNSS ==
  /\ out.fn = "parseRA"
  /\ buf = buildRAFull(64, TRUE, FALSE, 1800, <<>>,
                       <<25, 2>> \o Zeros(14)
                         \o buildPrefixInfoOption(ParseIP("2001:db8::"), 64, TRUE, TRUE, 86400, 14400))
  /\ out.ri.RDNSS = <<>>
  /\ Len(out.ri.Prefixes) = 1
  /\ out.ri.Prefixes[1].Prefix = PrefixText(ParseIP("2001:db8::"), 64)

\* C34: the hop limit of the record parseRA returns is byte 4 of the buffer
\* when that byte is not 0, and the hop limit of the control message
\* otherwise, which leaves it 0 when that is 0 too; the control value never
\* takes the place of a byte 4 that is not 0.
HopLimitIsByte4OrControl ==
  (out.fn = "parseRA" /\ Len(buf) >= 16) =>
    /\ Byte(buf, 4) # 0 => out.ri.HopLimit = Byte(buf, 4)
    /\ Byte(buf, 4) = 0 => out.ri.HopLimit = out.hopLimit

\* an advertisement with Cur Hop Limit 64 has been decoded with a control
\* hop limit of 255
AdvertisedHopLimitKept ==
  /\ out.fn = "parseRA"
  /\ Len(buf) >= 16
  /\ Byte(buf, 0) = 134
  /\ Byte(buf, 4) = 64
  /\ out.hopLimit = 255
  /\ out.ri.HopLimit = 64

\* C35: every loop of the decoders ends, for every buffer: a turn of the
\* option walks of parseLinkLayerAddr and parseRA either ends the walk or
\* goes on at least 8 bytes further and not beyond the end of the buffer, and
\* the walk ends at an option of length 0, at an option that runs past the
\* end and when fewer than 2 bytes are left; a turn of the record loop of
\* parseMLDv2Groups either ends the loop or goes on with the next record at
\* least 20 bytes further, and the loop ends with the declared record count
\* and when fewer than 20 bytes are left.
ParserLoopsAdvance ==
  /\ out.fn = "parseLinkLayerAddr" =>
       \A offset \in 0..Len(buf) :
         LET next == LinkLayerWalkNext(buf, out.optionType, offset)
         IN /\ next # LoopExit => (next >= offset + 8 /\ next <= Len(buf))
            /\ offset + 2 > Len(buf) => next = LoopExit
            /\ (offset + 2 <= Len(buf) /\ Byte(buf, offset + 1) = 0) => next = LoopExit
            /\ (offset + 2 <= Len(buf) /\ offset + Byte(buf, offset + 1) * 8 > Len(buf)) => next = LoopExit
  /\ out.fn = "parseRA" =>
       \A offset \in 0..Len(buf) :
         LET next == RAOptionsNext(buf, offset)
         IN /\ next # LoopExit => (next >= offset + 8 /\ next <= Len(buf))
            /\ next = LoopExit <=>
                 \/ offset + 2 > Len(buf)
                 \/ Byte(buf, offset + 1) = 0
                 \/ offset + Byte(buf, offset + 1) * 8 > Len(buf)
  /\ (out.fn = "parseRA" /\ Len(buf) >= 16) =>
       LET chain == OptionChain(buf, 16)
       IN /\ \A i \in 1..Len(chain) :
               RAOptionsNext(buf, chain[i]) = IF i < Len(chain) THEN chain[i + 1] ELSE ChainEnd(buf, 16)
          /\ RAOptionsNext(buf, ChainEnd(buf, 16)) = LoopExit
          /\ Len(chain) <= (Len(buf) - 16) \div 8
  /\ (out.fn = "parseMLDGroups" /\ Len(buf) >= 8) =>
       \A offset \in 0..Len(buf), i \in {0, Uint16(buf, 6)} :
         LET next == MLDv2RecordsNext(buf, Uint16(buf, 6), i, offset)
         IN /\ next # LoopExit => next >= offset + 20
            /\ next = LoopExit <=> (i >= Uint16(buf, 6) \/ offset + 20 > Len(buf))

\* the walk over the five options of a Router Advertisement has taken five
\* turns and ended at the end of the buffer
WalkOverAllOptions ==
  /\ out.fn = "parseRA"
  /\ buf = RAAllOptions
  /\ RAOptionsNext(buf, 16) = 24
  /\ RAOptionsNext(buf, 24) = 56
  /\ RAOptionsNext(buf, 56) = 64
  /\ RAOptionsNext(buf, 64) = 88
  /\ RAOptionsNext(buf, 88) = Len(buf)
  /\ RAOptionsNext(buf, Len(buf)) = LoopExit
  /\ Len(out.ri.Prefixes) = 1

\* ---------------------------------------------------------------------- C36
\* the listener has read a packet whose type byte is none of the NDP and MLD
\* types
RunOnUnclassified ==
  \E srcIP \in Addrs, b \in Packets :
    /\ Run(srcIP, b)
    /\ Len(b) >= 4
    /\ Byte(b, 0) \notin DOMAIN KindOfType

\* C36: a turn of the listener's loop on a packet whose ICMPv6 type classifies
\* to none records nothing: the peer table and the router table are after the
\* turn what they were before it.
UnclassifiedPacketRecordsNothing ==
  [][RunOnUnclassified => (peers' = peers /\ routers' = routers)]_vars

\* an echo request has been read by a listener whose tables hold a peer and a
\* router, and both tables are as the advertisement before it left them
EchoRequestPassedOver ==
  /\ lastOp = "Run"
  /\ buf = <<128, 0, 0, 0>>
  /\ src \in Addrs
  /\ DOMAIN peers # {}
  /\ DOMAIN routers # {}
  /\ peers = RunPeers(EmptyMap, RAAllOptions, "fe80::1", "router_advertisement", lastAt)

\* ---------------------------------------------------------------------- C37
\* C37: while the listener records its packets call by call (RecordMessage
\* first, then RecordMAC, RecordRouter and RecordMLDMembership) and the timer
\* calls Prune at any moment in between, every peer of the store holds at
\* least one message timestamp: there is no peer with a MAC or groups only.
EveryPeerHoldsAMessage ==
  \A a \in DOMAIN peers : \E ndpKind \in DOMAIN peers[a].Messages : peers[a].Messages[ndpKind] # <<>>

\* ---------------------------------------------------------------------- C38
\* the listener has read an MLDv1 Done for the group g sent by srcIP
RunOnDone(srcIP, g) ==
  /\ buildMLDv1Done(ParseIP(g)) \in MembershipPackets
  /\ Run(srcIP, buildMLDv1Done(ParseIP(g)))

\* the snapshot that follows the Done of the sender src for the group g
SnapshotAfterDone(g) ==
  /\ lastOp = "Run"
  /\ buf = buildMLDv1Done(ParseIP(g))
  /\ GetStats

\* the snapshot snap lists the address a as a member of the group g
ListedAsMember(s, a, g) ==
  \E i \in 1..Len(s) : s[i].Address = a /\ \E j \in 1..Len(s[i].Groups) : s[i].Groups[j] = g

\* C38 as it is written: after a Done for G from A, the next snapshot, whenever
\* it is taken, lists A as a member of G.
DoneSenderListedInNextSnapshot ==
  [][\A g \in GroupAddrs : SnapshotAfterDone(g) => ListedAsMember(snap', src, g)]_vars

\* C38: a group entry leaves a peer only in a Prune, which drops it when its
\* timestamp is not after now - window or removes the whole peer; a Done for G
\* from A sets groups[G] of A to now and leaves the groups of A as a Report for
\* G would, and the snapshot that follows lists A as a member of G when it is
\* taken while that timestamp is still after now - window.
DoneRefreshesMembership ==
  [][/\ \A a \in DOMAIN peers :
          /\ a \notin DOMAIN peers' => Prune
          /\ \A g \in DOMAIN peers[a].Groups :
               (a \in DOMAIN peers' /\ g \notin DOMAIN peers'[a].Groups) =>
                 (Prune /\ peers[a].Groups[g] <= clock - window)
     /\ \A srcIP \in Addrs, g \in GroupAddrs :
          RunOnDone(srcIP, g) =>
            /\ srcIP \in DOMAIN peers'
            /\ g \in DOMAIN peers'[srcIP].Groups
            /\ peers'[srcIP].Groups[g] = clock
            /\ peers'[srcIP].Groups
                 = RunPeers(peers, buildMLDv1Report(ParseIP(g)), srcIP, "mld_report", clock)[srcIP].Groups
     /\ \A g \in GroupAddrs :
          (SnapshotAfterDone(g) /\ peers[src].Groups[g] > clock - window) =>
            ListedAsMember(snap', src, g)
    ]_vars

\* a host that had reported ff02::fb has sent a Done for it, and the snapshot
\* taken after the Done lists it as a member with the time of the Done
DoneSenderStillListed ==
  /\ lastOp = "GetStats"
  /\ buf = buildMLDv1Done(ParseIP("ff02::fb"))
  /\ src \in DOMAIN peers
  /\ "mld_report" \in DOMAIN peers[src].Messages
  /\ "mld_done" \in DOMAIN peers[src].Messages
  /\ "ff02::fb" \in DOMAIN peers[src].Groups
  /\ peers[src].Groups["ff02::fb"] = peers[src].LastSeen
  /\ ListedAsMember(snap, src, "ff02::fb")

\* ---------------------------------------------------------------------- C39
\* the goroutine p holds the store lock, as the writer or as a reader
HoldsLock(p) == mu.writer = p \/ p \in mu.readers

\* a step in which p acquires the lock
Acquires(p) == (mu.writer # p /\ mu'.writer = p) \/ (p \notin mu.readers /\ p \in mu'.readers)

\* a step in which p releases the lock
Releases(p) == HoldsLock(p) /\ mu'.writer # p /\ p \notin mu'.readers

\* a call acquires the lock once: only at its Lock or RLock, which it reaches
\* only from its start, and not while it holds the lock; it returns only in
\* the step that releases the lock; getOrCreatePeer runs under the caller's
\* Lock and leaves the lock alone
LockedOncePerCall ==
  [][\A p \in Procs :
       /\ Acquires(p) => (pc[p] \in {"Lock", "RLock"} /\ ~HoldsLock(p) /\ pc'[p] \notin {"Lock", "RLock", "idle"})
       /\ (pc'[p] \in {"Lock", "RLock"} /\ pc'[p] # pc[p]) => (pc[p] = "idle" /\ ~HoldsLock(p))
       /\ (pc[p] \in {"Lock", "RLock"} /\ pc'[p] # pc[p]) => Acquires(p)
       /\ (pc[p] # "idle" /\ pc'[p] = "idle") => Releases(p)
       /\ Releases(p) => pc'[p] = "idle"
       /\ GetOrCreatePeer(p) => (mu.writer = p /\ mu.readers = {} /\ mu' = mu)
    ]_vars

\* a goroutine outside a call holds no lock
IdleHoldsNoLock == \A p \in Procs : pc[p] = "idle" => ~HoldsLock(p)

\* while a call is under way, some goroutine inside a call can take a step
NoDeadlock == (\E p \in Procs : pc[p] # "idle") => \E p \in Procs : ENABLED CallStep(p)

\* every call that has started returns
EveryCallReturns == \A p \in Procs : (pc[p] # "idle") ~> (pc[p] = "idle")

\* C39: every store operation acquires the store lock exactly once and
\* releases it before it returns, getOrCreatePeer running under the lock its
\* caller holds; with goroutines that record, snapshot and prune at the same
\* time no state is reached in which the calls under way are all stuck, and
\* with a fair scheduler and a fair lock every call that has started returns.
LockDisciplineAndProgress ==
  /\ LockedOncePerCall
  /\ []IdleHoldsNoLock
  /\ []NoDeadlock
  /\ EveryCallReturns

\* Prune has claimed the lock and waits for the reader that is inside GetStats,
\* while no later reader can get in
WriterWaitsForReader ==
  /\ \E p \in Procs : pc[p] = "LockWait" /\ mu.writer = p /\ call[p].op = "Prune"
  /\ \E q \in Procs : q \in mu.readers /\ call[q].op = "GetStats" /\ pc[q] \in {"summaries", "RUnlock"}
  /\ ~CanRLock(mu)

====
